---------------------------- MODULE Spec2Model ----------------------------
(***************************************************************************)
(* DNSGuard: the TTL answer cache (dnsguard/core/cache.py), the query      *)
(* client (dnsguard/core/resolver.py), the iterative tracer                *)
(* (dnsguard/core/trace.py), the report score (dnsguard/cli.py) and the    *)
(* SPF parser (dnsguard/checks/email.py) as a state machine.               *)
(*                                                                         *)
(* Time is the value of time.time() in whole seconds.  Text is a sequence  *)
(* of one-character strings, so that lower(), upper() and rstrip(".") are  *)
(* computed and not assumed.  Python's Optional[T] is a sequence of length *)
(* 0 (None) or 1.                                                          *)
(***************************************************************************)
EXTENDS Integers, Sequences, FiniteSets, TLC

VARIABLES
    now,        \* time.time()
    ticks,      \* how many times the clock has advanced (bounds the run)
    max_items,  \* TTLCache._max
    data,       \* TTLCache._data: the entries in insertion order
    op,         \* the operation just executed on the bare cache, with its result
    lastSet,    \* the most recent TTLCache.set call made on the bare cache
    tries_arg,  \* the tries argument DNSResolver was built with
    tries,      \* DNSResolver.tries
    pc,         \* where the current DNSResolver.query call stands
    call,       \* the locals of the current DNSResolver.query call
    log,        \* the network attempts the current call has made, in order
    result,     \* what the current call returned (None while running or raised)
    raised,     \* the exception the current call raised (None otherwise)
    lastStore,  \* the most recent entry a query call wrote to the cache
    tpc,        \* where the current iterative_trace call stands
    tr,         \* the locals of the current iterative_trace call
    env,        \* how the name servers of the world answer
    sent,       \* the queries the main loop of the trace has sent, with their outcomes
    lookups,    \* the NS-hostname lookups the trace has made, in order
    tresult,    \* the TraceResult the call returned (None while running or raised)
    traised,    \* the exception the call raised (None otherwise)
    findings,   \* the argument of the current _score_report call
    score,      \* what _score_report returned (None before the call)
    spf,        \* the argument of the current parse_spf call
    spf_result  \* the SPFResult parse_spf returned (None before the call)

clockVars == <<now, ticks>>

cacheVars == <<max_items, data>>

bareVars == <<op, lastSet>>

cfgVars == <<tries_arg, tries>>

callVars == <<pc, call, log, result, raised, lastStore>>

traceVars == <<tpc, tr, env, sent, lookups, tresult, traised>>

postureVars == <<findings, score, spf, spf_result>>

vars == <<clockVars, cacheVars, bareVars, cfgVars, callVars, traceVars, postureVars>>

---------------------------------------------------------------------------
(* Bounds of the model. *)

\* The clock advances at most this many times in a run.
MaxTicks == 2

\* The configured retry counts range over 0..MaxTries.
MaxTries == 2

\* The capacities of the bare TTLCache range over 1..MaxItems.
MaxItems == 2

(* Program constants. *)

\* resolver.py:156: the cap on the lifetime of a cached answer, in seconds.
MaxCacheTTL == 3600

\* The capacities tried for the bare TTLCache (the program's own is 2048,
\* cache.py:20; every cache the program builds has capacity >= 1).
Capacities == 1..MaxItems

\* The capacities tried for the cache of a DNSResolver.
ResolverCapacities == {1, 2}

\* How far one advance of the clock goes: a second, or close to MaxCacheTTL.
TickSteps == {1, MaxCacheTTL - 1}

---------------------------------------------------------------------------
(* Optional values. *)

None == <<>>

Some(x) == <<x>>

IsSome(o) == o # <<>>

Get(o) == o[1]

Min(a, b) == IF a <= b THEN a ELSE b

Max(a, b) == IF a >= b THEN a ELSE b

---------------------------------------------------------------------------
(* Text: str.lower, str.upper, str.rstrip("."). *)

LowerChar(c) ==
    CASE c = "A" -> "a"
      [] c = "B" -> "b"
      [] c = "M" -> "m"
      [] c = "X" -> "x"
      [] OTHER -> c

UpperChar(c) ==
    CASE c = "a" -> "A"
      [] c = "b" -> "B"
      [] c = "m" -> "M"
      [] c = "x" -> "X"
      [] OTHER -> c

Lower(s) == [i \in 1..Len(s) |-> LowerChar(s[i])]

Upper(s) == [i \in 1..Len(s) |-> UpperChar(s[i])]

RECURSIVE RStripDots(_)
RStripDots(s) ==
    IF s # <<>> /\ s[Len(s)] = "."
    THEN RStripDots(SubSeq(s, 1, Len(s) - 1))
    ELSE s

---------------------------------------------------------------------------
(* TTLCache (cache.py).  _data is a dict: an entry keeps the place of its   *)
(* first insertion, and next(iter(_data)) is the oldest key.  stored_at and *)
(* by are history fields (when and for which call the entry was written);   *)
(* the code keeps only expires_at and value.                                *)

CacheEntry(key, expires_at, value, stored_at, by) ==
    [key |-> key, expires_at |-> expires_at, value |-> value,
     stored_at |-> stored_at, by |-> by]

\* _data.get(key): the place of key's entry, 0 when there is none.
IndexOf(d, key) ==
    IF \E i \in 1..Len(d) : d[i].key = key
    THEN CHOOSE i \in 1..Len(d) : d[i].key = key
    ELSE 0

Keys(d) == {d[i].key : i \in 1..Len(d)}

\* _data.pop(key, None)
Pop(d, key) ==
    LET i == IndexOf(d, key)
    IN  IF i = 0 THEN d ELSE SubSeq(d, 1, i - 1) \o SubSeq(d, i + 1, Len(d))

\* TTLCache.get with the expiry test off by one (> for >=).
TTLCache_get_late(d, key, t) ==
    LET i == IndexOf(d, key)
    IN  IF i = 0 THEN [value |-> None, data |-> d]
        ELSE IF t > d[i].expires_at THEN [value |-> None, data |-> Pop(d, key)]
        ELSE [value |-> Some(d[i].value), data |-> d]

\* TTLCache.get that reports an expired entry absent but leaves it in place.
TTLCache_get_keep(d, key, t) ==
    LET i == IndexOf(d, key)
    IN  IF i = 0 \/ t >= d[i].expires_at THEN [value |-> None, data |-> d]
        ELSE [value |-> Some(d[i].value), data |-> d]

\* TTLCache.get at time t: the value returned and the entries left.
TTLCache_get(d, key, t) ==
    LET i == IndexOf(d, key)
    IN  IF i = 0 THEN [value |-> None, data |-> d]
        ELSE IF t >= d[i].expires_at THEN [value |-> None, data |-> Pop(d, key)]
        ELSE [value |-> Some(d[i].value), data |-> d]

\* TTLCache.set with the capacity test off by one (> for >=).
TTLCache_set_over(d, cap, key, value, ttl, t, by) ==
    IF ttl <= 0 THEN d
    ELSE LET d1 == IF Len(d) > cap THEN Pop(d, d[1].key) ELSE d
             e  == CacheEntry(key, t + ttl, value, t, by)
             i  == IndexOf(d1, key)
         IN  IF i = 0 THEN Append(d1, e) ELSE [d1 EXCEPT ![i] = e]

\* TTLCache.set that evicts nothing when it overwrites a key it holds.
TTLCache_set_update(d, cap, key, value, ttl, t, by) ==
    IF ttl <= 0 THEN d
    ELSE LET i  == IndexOf(d, key)
             d1 == IF Len(d) >= cap /\ i = 0 THEN Pop(d, d[1].key) ELSE d
             e  == CacheEntry(key, t + ttl, value, t, by)
         IN  IF i = 0 THEN Append(d1, e) ELSE [d1 EXCEPT ![i] = e]

\* TTLCache.set at time t: the entries left.
TTLCache_set(d, cap, key, value, ttl, t, by) ==
    IF ttl <= 0 THEN d
    ELSE LET d1 == IF Len(d) >= cap THEN Pop(d, d[1].key) ELSE d
             e  == CacheEntry(key, t + ttl, value, t, by)
             i  == IndexOf(d1, key)
         IN  IF i = 0 THEN Append(d1, e) ELSE [d1 EXCEPT ![i] = e]

---------------------------------------------------------------------------
(* The bare cache, driven by arbitrary set and get calls. *)

CacheKeys == {"k1", "k2", "k3"}

CacheValues == {"v1", "v2"}

CacheTTLs == {0, 1, 2}

\* full: the cache was at capacity when set was called;
\* found: the cache held an entry for the key when get was called.
NoOp == [kind |-> "none", key |-> "k1", value |-> None, full |-> FALSE, found |-> FALSE]

Idle ==
    /\ pc = "idle"
    /\ call = None
    /\ log = <<>>
    /\ result = None
    /\ raised = None
    /\ lastStore = None

\* A world whose servers answer no NS-hostname lookup and hold one name.
QuietEnv == [ns |-> "dead", chain |-> 0, loop |-> None, depth |-> 0, glue |-> FALSE]

\* Neither _score_report nor parse_spf has been called.
PostureIdle ==
    /\ findings = <<>>
    /\ score = None
    /\ spf = <<>>
    /\ spf_result = None

\* No iterative_trace call has been made.
TraceIdle ==
    /\ tpc = "idle"
    /\ tr = None
    /\ sent = <<>>
    /\ lookups = <<>>
    /\ tresult = None
    /\ traised = None

InitCache ==
    /\ now = 0
    /\ ticks = 0
    /\ max_items \in Capacities
    /\ data = <<>>
    /\ op = NoOp
    /\ lastSet = None
    /\ tries_arg = 1
    /\ tries = 1
    /\ Idle
    /\ env = QuietEnv
    /\ TraceIdle
    /\ PostureIdle

CacheSet(key, value, ttl) ==
    /\ data' = TTLCache_set(data, max_items, key, value, ttl, now, None)
    /\ op' = [NoOp EXCEPT !.kind = "set", !.key = key, !.full = (Len(data) >= max_items)]
    /\ lastSet' = Some([key |-> key, value |-> value, ttl |-> ttl, at |-> now])
    /\ UNCHANGED <<clockVars, max_items, cfgVars, callVars, traceVars, postureVars>>

CacheGet(key) ==
    LET r == TTLCache_get(data, key, now)
    IN  /\ data' = r.data
        /\ op' = [NoOp EXCEPT !.kind = "get", !.key = key, !.value = r.value,
                              !.found = (key \in Keys(data))]
        /\ UNCHANGED <<lastSet, clockVars, max_items, cfgVars, callVars, traceVars, postureVars>>

CacheTick(d) ==
    /\ ticks < MaxTicks
    /\ ticks' = ticks + 1
    /\ now' = now + d
    /\ op' = [NoOp EXCEPT !.kind = "tick"]
    /\ UNCHANGED <<lastSet, cacheVars, cfgVars, callVars, traceVars, postureVars>>

NextCache ==
    \/ \E key \in CacheKeys, value \in CacheValues, ttl \in CacheTTLs : CacheSet(key, value, ttl)
    \/ \E key \in CacheKeys : CacheGet(key)
    \/ CacheTick(1)

SpecCache == InitCache /\ [][NextCache]_vars

---------------------------------------------------------------------------
(* The query client, DNSResolver (resolver.py). *)

\* A wire response: dns.message.Message as dns.query.udp / tcp returns it.
\* Each section is a list of record sets; a record set has one ttl.
RRset(ttl, items) == [ttl |-> ttl, items |-> items]

Message(rcode, tc, answer, authority, additional) ==
    [rcode |-> rcode, tc |-> tc, answer |-> answer,
     authority |-> authority, additional |-> additional]

\* An address answer with a short TTL.
RespA == Message("NOERROR", FALSE, <<RRset(2, <<"203.0.113.10">>)>>, <<>>, <<>>)

\* A CNAME followed by the address: two record sets, the first with a TTL
\* above MaxCacheTTL.
RespCname ==
    Message("NOERROR", FALSE,
            <<RRset(2 * MaxCacheTTL, <<"c.">>), RRset(1, <<"203.0.113.10">>)>>, <<>>, <<>>)

\* No answer section: a negative answer with an SOA in the authority section.
RespEmpty == Message("NXDOMAIN", FALSE, <<>>, <<RRset(2, <<"soa">>)>>, <<>>)

\* A truncated response that still carries a record.
RespTrunc == Message("NOERROR", TRUE, <<RRset(2, <<"203.0.113.10">>)>>, <<>>, <<>>)

\* An answer whose TTL is 0.
RespZero == Message("NOERROR", FALSE, <<RRset(0, <<"203.0.113.10">>)>>, <<>>, <<>>)

Responses == {RespA, RespCname, RespEmpty, RespTrunc, RespZero}

\* What one network attempt yields: a transport error (None) or a response.
Outcomes == {None} \cup {Some(r) : r \in Responses}

\* The arguments of query() tried: Q1 and Q2 differ in letter case and a
\* trailing dot only; each of the others differs from Q1 in one part of the key.
Q1 == [qname |-> <<"a">>, qtype |-> <<"a">>, server |-> "s1", want_dnssec |-> FALSE]

Q2 == [qname |-> <<"A", ".">>, qtype |-> <<"A">>, server |-> "s1", want_dnssec |-> FALSE]

Q3 == [Q1 EXCEPT !.qname = <<"a", ".", "b">>]

Q4 == [Q1 EXCEPT !.server = "s2"]

Q5 == [Q1 EXCEPT !.want_dnssec = TRUE]

Q6 == [Q1 EXCEPT !.qtype = <<"M", "X">>]

Queries == {Q1, Q2, Q3, Q4, Q5, Q6}

\* DNSResolver.__init__: self.tries = max(1, tries)
DNSResolver_init(n) == Max(1, n)

\* The lookup key without lower(): names are told apart by letter case.
QueryKey_cased(qname, qtype, server, want_dnssec) ==
    <<server, RStripDots(qname), qtype, want_dnssec>>

\* query(): key = (server, qname.lower().rstrip("."), qtype, bool(want_dnssec)),
\* qtype already upper-cased.
QueryKey(qname, qtype, server, want_dnssec) ==
    <<server, RStripDots(Lower(qname)), qtype, want_dnssec>>

\* The key of _query_tcp built from the name as given.
TcpKey_raw(qname, qtype, server, want_dnssec) ==
    <<server, qname, Upper(qtype), want_dnssec>>

\* _query_tcp(): key = (server, qname.lower().rstrip("."), qtype.upper(), bool(want_dnssec))
TcpKey(qname, qtype, server, want_dnssec) ==
    <<server, RStripDots(Lower(qname)), Upper(qtype), want_dnssec>>

\* The texts of a section: every item of every record set, in order.
RECURSIVE Texts(_)
Texts(rrsets) ==
    IF rrsets = <<>> THEN <<>> ELSE rrsets[1].items \o Texts(Tail(rrsets))

QueryMeta(server, qname, qtype, tcp, rcode, elapsed_ms, truncated, retries) ==
    [server |-> server, qname |-> qname, qtype |-> qtype, tcp |-> tcp, rcode |-> rcode,
     elapsed_ms |-> elapsed_ms, truncated |-> truncated, retries |-> retries]

\* _parse_response taking the TTL of the last record set of the answer.
DNSResolver_parse_response_last(qname, qtype, server, tcp, resp, elapsed, retries) ==
    [qname |-> qname,
     qtype |-> Upper(qtype),
     ttl |-> IF resp.answer # <<>> THEN Some(resp.answer[Len(resp.answer)].ttl) ELSE None,
     answers |-> Texts(resp.answer),
     authority |-> Texts(resp.authority),
     additional |-> Texts(resp.additional),
     meta |-> QueryMeta(server, qname, Upper(qtype), tcp, resp.rcode, elapsed, resp.tc, retries)]

\* DNSResolver._parse_response: the Answer built from a wire response.
DNSResolver_parse_response(qname, qtype, server, tcp, resp, elapsed, retries) ==
    [qname |-> qname,
     qtype |-> Upper(qtype),
     ttl |-> IF resp.answer # <<>> THEN Some(resp.answer[1].ttl) ELSE None,
     answers |-> Texts(resp.answer),
     authority |-> Texts(resp.authority),
     additional |-> Texts(resp.additional),
     meta |-> QueryMeta(server, qname, Upper(qtype), tcp, resp.rcode, elapsed, resp.tc, retries)]

\* _cache_answer without the cap on the lifetime.
DNSResolver_cache_answer_uncapped(d, cap, key, ans, t, by) ==
    IF ans.ttl = None THEN d
    ELSE TTLCache_set(d, cap, key, ans, Max(Get(ans.ttl), 0), t, by)

\* DNSResolver._cache_answer at time t: the cache entries left.
DNSResolver_cache_answer(d, cap, key, ans, t, by) ==
    IF ans.ttl = None THEN d
    ELSE TTLCache_set(d, cap, key, ans, Min(Max(Get(ans.ttl), 0), MaxCacheTTL), t, by)

\* The loop bound off by one: range(self.tries + 1).
MoreUdp_extra(attempt) == attempt <= tries

\* for attempt in range(self.tries): whether the loop runs with this attempt.
MoreUdp(attempt) == attempt < tries

\* raise last_exc or RuntimeError("DNS query failed"); 0 is the RuntimeError.
RaiseLast(last_exc) == IF IsSome(last_exc) THEN last_exc ELSE Some(0)

\* The fallback's handler dropping its own exception: the UDP one is raised.
FallbackExcept_stale(last_exc, e) == last_exc

\* The handler of the TCP fallback after the loop: last_exc = e.
FallbackExcept(last_exc, e) == Some(e)

Params(c) ==
    [qname |-> c.qname, qtype |-> c.qtype_arg, server |-> c.server, want_dnssec |-> c.want_dnssec]

Init ==
    /\ now = 0
    /\ ticks = 0
    /\ max_items \in ResolverCapacities
    /\ data = <<>>
    /\ op = NoOp
    /\ lastSet = None
    /\ tries_arg \in 0..MaxTries
    /\ tries = DNSResolver_init(tries_arg)
    /\ Idle
    /\ env = QuietEnv
    /\ TraceIdle
    /\ PostureIdle

\* query() up to the cache lookup: a hit returns, a miss enters the UDP loop.
\* t0, served (the entry a hit was served from) and data0 (the cache as the
\* lookup left it) are history fields.
Begin(q, fb) ==
    /\ pc \in {"idle", "returned", "raised"}
    /\ LET qtype == Upper(q.qtype)
           key == QueryKey(q.qname, qtype, q.server, q.want_dnssec)
           r == TTLCache_get(data, key, now)
           c == [qname |-> q.qname, qtype_arg |-> q.qtype, qtype |-> qtype,
                 server |-> q.server, want_dnssec |-> q.want_dnssec,
                 use_tcp_fallback |-> fb, key |-> key,
                 attempt |-> 0, retries |-> 0, last_exc |-> None,
                 t0 |-> now,
                 served |-> IF IsSome(r.value) THEN Some(data[IndexOf(data, key)]) ELSE None,
                 data0 |-> r.data]
       IN  /\ data' = r.data
           /\ call' = Some(c)
           /\ log' = <<>>
           /\ raised' = None
           /\ IF IsSome(r.value)
              THEN pc' = "returned" /\ result' = r.value
              ELSE IF MoreUdp(0)
              THEN pc' = "udp" /\ result' = None
              ELSE pc' = "tcp_fallback" /\ result' = None
    /\ UNCHANGED <<clockVars, max_items, bareVars, cfgVars, lastStore, traceVars, postureVars>>

\* The except clause of the UDP loop (last_exc = e), then the next iteration,
\* the TCP fallback after the loop, or the final raise.
LoopExcept(c, e) ==
    LET c1 == [c EXCEPT !.last_exc = Some(e), !.attempt = c.attempt + 1]
    IN  /\ call' = Some(c1)
        /\ IF MoreUdp(c1.attempt) THEN pc' = "udp" /\ raised' = None
           ELSE IF c.use_tcp_fallback THEN pc' = "tcp_fallback" /\ raised' = None
           ELSE pc' = "raised" /\ raised' = RaiseLast(c1.last_exc)

\* _cache_answer(key, ans) and return ans, at time t.
Return(c, key, ans, t) ==
    LET d2 == DNSResolver_cache_answer(data, max_items, key, ans, t, Params(c))
    IN  /\ data' = d2
        /\ lastStore' = IF d2 # data THEN Some(d2[IndexOf(d2, key)]) ELSE lastStore
        /\ result' = Some(ans)
        /\ call' = Some(c)
        /\ raised' = None
        /\ pc' = "returned"

\* One iteration of the UDP loop: dns.query.udp takes d seconds and yields out.
UdpAttempt(out, d) ==
    /\ pc = "udp"
    /\ d = 0 \/ ticks < MaxTicks
    /\ now' = now + d
    /\ ticks' = IF d = 0 THEN ticks ELSE ticks + 1
    /\ log' = Append(log, [tcp |-> FALSE, resp |-> out])
    /\ LET c0 == Get(call)
           c == [c0 EXCEPT !.retries = c0.attempt]
       IN  IF out = None
           THEN LoopExcept(c, Len(log) + 1) /\ UNCHANGED <<data, result, lastStore>>
           ELSE IF Get(out).tc /\ c.use_tcp_fallback
           THEN /\ pc' = "tcp_in_try"
                /\ call' = Some(c)
                /\ UNCHANGED <<data, result, raised, lastStore>>
           ELSE Return(c, c.key,
                       DNSResolver_parse_response(c.qname, c.qtype, c.server, FALSE,
                                                  Get(out), d * 1000, c.retries),
                       now + d)
    /\ UNCHANGED <<max_items, bareVars, cfgVars, traceVars, postureVars>>

\* _query_tcp: dns.query.tcp takes d seconds and yields out.  Called from inside
\* the try of the UDP loop (pc = "tcp_in_try") its exception is caught by the
\* loop's except clause; called after the loop, by the fallback's.
TcpAttempt(out, d) ==
    /\ pc \in {"tcp_in_try", "tcp_fallback"}
    /\ d = 0 \/ ticks < MaxTicks
    /\ now' = now + d
    /\ ticks' = IF d = 0 THEN ticks ELSE ticks + 1
    /\ log' = Append(log, [tcp |-> TRUE, resp |-> out])
    /\ LET c == Get(call)
       IN  IF out = None
           THEN /\ IF pc = "tcp_in_try"
                   THEN LoopExcept(c, Len(log) + 1)
                   ELSE /\ call' = Some([c EXCEPT !.last_exc = FallbackExcept(c.last_exc, Len(log) + 1)])
                        /\ pc' = "raised"
                        /\ raised' = RaiseLast(FallbackExcept(c.last_exc, Len(log) + 1))
                /\ UNCHANGED <<data, result, lastStore>>
           ELSE Return(c, TcpKey(c.qname, c.qtype, c.server, c.want_dnssec),
                       DNSResolver_parse_response(c.qname, c.qtype, c.server, TRUE,
                                                  Get(out), d * 1000, c.retries),
                       now + d)
    /\ UNCHANGED <<max_items, bareVars, cfgVars, traceVars, postureVars>>

\* Time passes between two calls.
Tick(d) ==
    /\ pc \in {"idle", "returned", "raised"}
    /\ ticks < MaxTicks
    /\ ticks' = ticks + 1
    /\ now' = now + d
    /\ UNCHANGED <<cacheVars, bareVars, cfgVars, callVars, traceVars, postureVars>>

\* The retry machine: two keys, every kind of attempt outcome (a transport
\* error, a plain answer, a truncated response), attempts that take no time.
Next ==
    \/ \E q \in {Q1, Q3}, fb \in BOOLEAN : Begin(q, fb)
    \/ \E out \in {None, Some(RespA), Some(RespTrunc)} : UdpAttempt(out, 0)
    \/ \E out \in {None, Some(RespA), Some(RespTrunc)} : TcpAttempt(out, 0)
    \/ Tick(1)

Spec == Init /\ [][Next]_vars

\* Lifetimes: one resolver with tries = 1, every response, attempts that take
\* up to a second, and a clock that can jump close to MaxCacheTTL.
InitTTL ==
    /\ Init
    /\ tries_arg = 1

NextTTL ==
    \/ \E q \in {Q2, Q3}, fb \in BOOLEAN : Begin(q, fb)
    \/ \E out \in Outcomes, d \in {0, 1} : UdpAttempt(out, d)
    \/ \E out \in Outcomes, d \in {0, 1} : TcpAttempt(out, d)
    \/ \E d \in TickSteps : Tick(d)

SpecTTL == InitTTL /\ [][NextTTL]_vars

\* Keys: every query of Queries against one resolver with tries = 1; an
\* attempt fails or yields RespA, so that both the UDP and the TCP path store.
InitKeys ==
    /\ Init
    /\ tries_arg = 1

NextKeys ==
    \/ \E q \in Queries, fb \in BOOLEAN : Begin(q, fb)
    \/ \E out \in {None, Some(RespA)} : UdpAttempt(out, 0)
    \/ \E out \in {None, Some(RespA)} : TcpAttempt(out, 0)
    \/ Tick(1)

SpecKeys == InitKeys /\ [][NextKeys]_vars

---------------------------------------------------------------------------
(* The iterative tracer, iterative_trace (trace.py).                       *)
(*                                                                         *)
(* In this part a text (a name, an address, a record's to_text()) is a     *)
(* sequence of tokens: labels, numbers, "." and ":".                       *)

\* The CNAME chains of the world have up to MaxChain links.
MaxChain == 10

\* A name of the world lies up to MaxDepth referrals below the root.
MaxDepth == 3

\* The max_steps arguments tried with freely answering servers: 0..MaxSteps.
MaxSteps == 3

\* trace.py:194: the number of CNAME indirections a trace follows.
MaxCnameHops == 8

\* trace.py:221: the number of NS hostnames looked up for a referral.
MaxNsLookups == 6

\* trace.py:112: the default of max_steps, the only value the program passes.
DefaultMaxSteps == 30

\* trace.py:58: the built-in root servers, used when the packaged
\* data/root_hints.json is not found.
RootHints ==
    << <<"198", ".", "41", ".", "0", ".", "4">>,
       <<"199", ".", "9", ".", "14", ".", "201">>,
       <<"192", ".", "33", ".", "4", ".", "12">> >>

\* random.shuffle(roots): the orders the root servers can come out in.
RootOrders ==
    {[i \in 1..3 |-> RootHints[p[i]]] :
        p \in {q \in [1..3 -> 1..3] : \A i, j \in 1..3 : i # j => q[i] # q[j]}}

\* The name with index i, absolute (to_text() of a dns.name.Name).
Name(i) == <<"n" \o ToString(i), ".">>

\* The hostname of the i-th name server.
NsName(i) == <<"ns" \o ToString(i), ".">>

\* The IPv4 address of the i-th name server, and an IPv6 address of it.
IP(i) == <<"10", ".", "0", ".", "0", ".", ToString(i)>>

V6(i) == <<"2001", ":", "db8", ":", ":", ToString(i)>>

\* An address of the queried host (a terminal answer).
HostIP == <<"203", ".", "0", ".", "113", ".", "10">>

Octets == {ToString(n) : n \in 0..255}

HexGroups == {"2001", "db8"} \cup {ToString(n) : n \in 0..9}

\* utils.is_ip: ipaddress.ip_address(s) accepts s.  A dotted quad of four
\* octets, or groups of hexadecimal digits separated by colons with one "::".
is_ip(s) ==
    \/ /\ Len(s) = 7
       /\ \A i \in 1..7 : IF i % 2 = 1 THEN s[i] \in Octets ELSE s[i] = "."
    \/ /\ Len(s) >= 3
       /\ \A i \in 1..Len(s) : s[i] \in HexGroups \cup {":"}
       /\ Cardinality({i \in 1..(Len(s) - 1) : s[i] = ":" /\ s[i + 1] = ":"}) = 1

\* The loop of utils.uniq.
RECURSIVE UniqLoop(_, _, _)
UniqLoop(seq, seen, out) ==
    IF seq = <<>> THEN out
    ELSE IF Head(seq) \in seen THEN UniqLoop(Tail(seq), seen, out)
    ELSE UniqLoop(Tail(seq), seen \cup {Head(seq)}, Append(out, Head(seq)))

\* A uniq that keeps every occurrence.
uniq_all(seq) == seq

\* utils.uniq: the first occurrence of every element, in order.
uniq(seq) == UniqLoop(seq, {}, <<>>)

\* A record set with its type (dns.rrset.RRset.rdtype).
Typed(rdtype, items) == [rdtype |-> rdtype, ttl |-> 60, items |-> items]

\* The items of the record sets of the given types, in order.
ItemsOf(rrsets, rdtypes) == Texts(SelectSeq(rrsets, LAMBDA r : r.rdtype \in rdtypes))

\* n if n.endswith(".") else n + "."
EnsureDot(n) == IF n # <<>> /\ n[Len(n)] = "." THEN n ELSE n \o <<".">>

\* _extract_referral_ns: the NS hostnames of the authority section,
\* dot-terminated and without duplicates.
_extract_referral_ns(resp) ==
    LET ns_names == ItemsOf(resp.authority, {"NS"})
    IN  uniq([i \in 1..Len(ns_names) |-> EnsureDot(ns_names[i])])

\* _extract_glue_ips: the A and AAAA addresses of the additional section.
_extract_glue_ips(resp) ==
    uniq(SelectSeq(ItemsOf(resp.additional, {"A", "AAAA"}), is_ip))

\* A tracer that sees no CNAME in any answer.
_extract_cname_target_none(resp) == None

\* _extract_cname_target: the first CNAME record of the answer section,
\* dot-terminated, or None.
_extract_cname_target(resp) ==
    LET items == ItemsOf(resp.answer, {"CNAME"})
    IN  IF items = <<>> THEN None ELSE Some(EnsureDot(items[1]))

\* The hostnames a referral can name: one more than the tracer looks up.
NsCount == Max(MaxNsLookups + 1, MaxDepth)

\* What resolver.query(ns, rdtype, server=ns_resolver_ip) yields in the world
\* e: None when it raises, else the answers of the Answer it returns.  The
\* auxiliary DNSResolver either returns an Answer or raises (its own retry
\* machine is the first part of this module); the world answers a hostname
\* the same way every time, so a cached Answer equals a fresh one.
\*   dead    every lookup raises
\*   empty   every lookup returns an Answer without records
\*   levels  every hostname has one IPv4 address and no IPv6 address
\*   last    only the hostname after the MaxNsLookups-th has an address
\*   sixth   only the MaxNsLookups-th hostname has an address, an IPv6 one
\*   mixed   failures, several records, repeated addresses and a CNAME record
\*   alias   every hostname is an alias: its A lookup returns the CNAME record
\*           and then the address, its AAAA lookup the CNAME record alone
NsQuery(e, ns, rdtype) ==
    LET i == CHOOSE j \in 1..NsCount : NsName(j) = ns
    IN  CASE e.ns = "dead" -> None
          [] e.ns = "empty" -> Some(<<>>)
          [] e.ns = "levels" -> IF rdtype = "A" THEN Some(<<IP(i)>>) ELSE None
          [] e.ns = "last" ->
                IF i = MaxNsLookups + 1 /\ rdtype = "A" THEN Some(<<IP(i)>>) ELSE None
          [] e.ns = "sixth" ->
                IF i = MaxNsLookups /\ rdtype = "AAAA" THEN Some(<<V6(i)>>) ELSE None
          [] e.ns = "mixed" ->
                IF i = 1 THEN (IF rdtype = "A" THEN None ELSE Some(<<V6(1)>>))
                ELSE IF i = 2 THEN (IF rdtype = "A" THEN Some(<<IP(2), IP(1)>>)
                                    ELSE Some(<<V6(1)>>))
                ELSE (IF rdtype = "A" THEN Some(<<NsName(1), IP(1)>>) ELSE Some(<<>>))
          [] e.ns = "alias" ->
                IF rdtype = "A" THEN Some(<<NsName(NsCount), IP(i)>>)
                ELSE Some(<<NsName(NsCount)>>)

NsWorlds == {"dead", "empty", "levels", "last", "sixth", "mixed", "alias"}

\* Every hostname of the referral is looked up.
FirstNs_all(ns_names) == ns_names

\* ns_names[:6]
FirstNs(ns_names) == SubSeq(ns_names, 1, Min(Len(ns_names), MaxNsLookups))

\* The lookups of trace.py:221-231 for the given hostnames: A, then AAAA.
RECURSIVE NsLookups(_, _)
NsLookups(e, names) ==
    IF names = <<>> THEN <<>>
    ELSE <<[ns |-> Head(names), rdtype |-> "A", out |-> NsQuery(e, Head(names), "A")],
           [ns |-> Head(names), rdtype |-> "AAAA", out |-> NsQuery(e, Head(names), "AAAA")]>>
         \o NsLookups(e, Tail(names))

\* ns_ips.extend(a.answers) for every lookup that did not raise.
RECURSIVE Extend(_)
Extend(looks) ==
    IF looks = <<>> THEN <<>>
    ELSE (IF Head(looks).out = None THEN <<>> ELSE Get(Head(looks).out)) \o Extend(Tail(looks))

\* ns_ips without the is_ip filter: every record text becomes a server.
ResolveNs_unfiltered(e, ns_names) ==
    uniq(Extend(NsLookups(e, FirstNs(ns_names))))

\* trace.py:219-233: ns_ips after the lookups.
ResolveNs(e, ns_names) ==
    uniq(SelectSeq(Extend(NsLookups(e, FirstNs(ns_names))), is_ip))

TraceStep(server, qname, qtype, elapsed_ms, rcode, answers, authority, additional, note) ==
    [server |-> server, qname |-> qname, qtype |-> qtype, elapsed_ms |-> elapsed_ms,
     rcode |-> rcode, answers |-> answers, authority |-> authority,
     additional |-> additional, note |-> note]

TraceResult(qname, qtype, steps, final_answers) ==
    [qname |-> qname, qtype |-> qtype, steps |-> steps, final_answers |-> final_answers]

\* A note that is never set.
StepNote_blank(truncated) == <<>>

\* trace.py:148, 159: note
StepNote(truncated) == IF truncated THEN <<"udp_truncated->tcp">> ELSE <<>>

\* Only a server failure ends the trace.
RcodeStops_servfail(rcode) == rcode = "SERVFAIL"

\* trace.py:185: resp.rcode() != dns.rcode.NOERROR
RcodeStops(rcode) == rcode # "NOERROR"

\* Every answer is terminal.
Follows_never(cname_target, qtype) == FALSE

\* trace.py:191: cname_target and qtype != "CNAME"
Follows(cname_target, qtype) ==
    /\ IsSome(cname_target)
    /\ Get(cname_target) # <<>>
    /\ qtype # <<"CNAME">>

\* The limit reached one indirection early.
HopLimit_early(cname_hops) == cname_hops >= MaxCnameHops

\* The limit reached one indirection late.
HopLimit_late(cname_hops) == cname_hops > MaxCnameHops + 1

\* trace.py:194: cname_hops > 8
HopLimit(cname_hops) == cname_hops > MaxCnameHops

\* break: the loop is left; why is a history field.
Stop(t, why) == [t EXCEPT !.brk = TRUE, !.stop = why]

\* continue, or the end of the loop body: the next iteration, if any.
Continue(t) == [t EXCEPT !.iter = @ + 1]

\* A referral without resolvable servers goes back to the roots.
AfterReferral_roots(t, ns_names, ns_ips) ==
    IF ns_names = <<>> \/ ns_ips = <<>> THEN Continue([t EXCEPT !.servers = t.roots])
    ELSE Continue([t EXCEPT !.servers = ns_ips])

\* trace.py:215-237: the end of the loop body, for a referral without glue.
AfterReferral(t, ns_names, ns_ips) ==
    IF ns_names = <<>> THEN Stop(t, "no_ns")
    ELSE IF ns_ips = <<>> THEN Stop(t, "no_ns_ips")
    ELSE Continue([t EXCEPT !.servers = ns_ips])

\* The roots shuffled anew for every name: here, put in the reverse order.
RestartServers_reshuffled(roots) == [i \in 1..Len(roots) |-> roots[Len(roots) + 1 - i]]

\* trace.py:201: servers = roots[:] -- a copy of the list shuffled at the start.
RestartServers(roots) == roots

\* trace.py:164-237: the loop body from the response on.  t are the locals,
\* resp the response of server (the TCP one after a truncated UDP one).
Body(t, e, server, resp, note) ==
    LET ans_txt == Texts(resp.answer)
        step == TraceStep(server, t.current, t.qtype, 0, resp.rcode, ans_txt,
                          Texts(resp.authority), Texts(resp.additional), note)
        t1 == [t EXCEPT !.steps = Append(@, step)]
        cname_target == _extract_cname_target(resp)
        hops == t.cname_hops + 1
        t2 == [t1 EXCEPT !.cname_hops = hops]
        glue_ips == _extract_glue_ips(resp)
        ns_names == _extract_referral_ns(resp)
    IN  IF RcodeStops(resp.rcode) THEN Stop(t1, "rcode")
        ELSE IF resp.answer # <<>>
        THEN IF Follows(cname_target, t.qtype)
             THEN IF HopLimit(hops) THEN Stop(t2, "hops")
                  ELSE IF Get(cname_target) \in t.seen_names THEN Stop(t2, "cycle")
                  ELSE Continue([t2 EXCEPT !.seen_names = @ \cup {Get(cname_target)},
                                           !.current = Get(cname_target),
                                           !.servers = RestartServers(t.roots)])
             ELSE Stop([t1 EXCEPT !.final_answers = ans_txt], "answer")
        ELSE IF glue_ips # <<>> THEN Continue([t1 EXCEPT !.servers = glue_ips])
        ELSE AfterReferral(t1, ns_names, ResolveNs(e, ns_names))

\* Whether the loop body reaches the NS lookups for this response.
ReachesLookups(t, resp) ==
    /\ ~RcodeStops(resp.rcode)
    /\ resp.answer = <<>>
    /\ _extract_glue_ips(resp) = <<>>
    /\ _extract_referral_ns(resp) # <<>>

\* for _ in range(max_steps) / if not servers: break -- the loop goes on.
LoopGoesOn(t) == ~t.brk /\ t.iter < t.max_steps /\ t.servers # <<>>

\* Why the loop ended, when no break inside the body ended it.
LoopEnd(t) ==
    IF t.brk THEN t
    ELSE IF t.iter >= t.max_steps THEN [t EXCEPT !.stop = "budget"]
    ELSE [t EXCEPT !.stop = "no_servers"]

\* A transport error that is swallowed: the trace returns what it has.
Propagate_swallow(t, e) ==
    [pc |-> "done", raised |-> None,
     result |-> Some(TraceResult(t.qname, t.qtype, t.steps, t.final_answers))]

\* trace.py:154, 161: dns.query.udp / dns.query.tcp are called outside any
\* try, so their exception e leaves iterative_trace.
Propagate(t, e) == [pc |-> "raised", raised |-> Some(e), result |-> None]

\* The next iteration of the loop, or trace.py:239: return TraceResult(...).
Finish(t) ==
    IF LoopGoesOn(t)
    THEN /\ tr' = Some(t)
         /\ tpc' = "loop"
         /\ tresult' = None
         /\ traised' = None
    ELSE /\ tr' = Some(LoopEnd(t))
         /\ tpc' = "done"
         /\ tresult' = Some(TraceResult(t.qname, t.qtype, t.steps, t.final_answers))
         /\ traised' = None

\* trace.py:126-141: iterative_trace up to the loop; roots is the order
\* random.shuffle left the root servers in.  iter counts the iterations
\* of the loop; brk and stop are history fields.
TraceBegin(qname, qtype, max_steps, roots) ==
    /\ tpc = "idle"
    /\ sent' = <<>>
    /\ lookups' = <<>>
    /\ Finish([qname |-> qname, qtype |-> Upper(qtype), max_steps |-> max_steps,
               current |-> RStripDots(qname) \o <<".">>,
               roots |-> roots, servers |-> roots, steps |-> <<>>,
               final_answers |-> <<>>, cname_hops |-> 0, seen_names |-> {},
               iter |-> 0, brk |-> FALSE, stop |-> "none"])
    /\ UNCHANGED <<clockVars, cacheVars, bareVars, cfgVars, callVars, env, postureVars>>

\* What the iteration sends and gets: the query for current goes to
\* servers[0], over UDP and, if that response is truncated, over TCP.
QueryEntry(t, udp, tcp) ==
    [server |-> t.servers[1], qname |-> t.current, udp |-> udp,
     truncated |-> IsSome(udp) /\ Get(udp).tc,
     tcp |-> IF IsSome(udp) /\ Get(udp).tc THEN tcp ELSE None]

\* One iteration of the loop (trace.py:143-237): the query goes to
\* servers[0]; udp is what dns.query.udp yields and tcp what dns.query.tcp
\* yields if the UDP response is truncated (None: a transport error).
TraceHop(udp, tcp) ==
    /\ tpc = "loop"
    /\ LET t == Get(tr)
           server == t.servers[1]
           truncated == IsSome(udp) /\ Get(udp).tc
           out == IF truncated THEN tcp ELSE udp
       IN  /\ sent' = Append(sent, QueryEntry(t, udp, tcp))
           /\ IF out = None
              THEN LET p == Propagate(t, [at |-> Len(sent) + 1, tcp |-> truncated])
                   IN  /\ tpc' = p.pc
                       /\ tresult' = p.result
                       /\ traised' = p.raised
                       /\ UNCHANGED <<tr, lookups>>
              ELSE /\ lookups' =
                        IF ReachesLookups(t, Get(out))
                        THEN lookups \o NsLookups(env, FirstNs(_extract_referral_ns(Get(out))))
                        ELSE lookups
                   /\ \E t1 \in {Body(t, env, server, Get(out), StepNote(truncated))} :
                          Finish(t1)
    /\ UNCHANGED <<clockVars, cacheVars, bareVars, cfgVars, callVars, env, postureVars>>

(* The responses the servers of a freely answering world give. *)

\* The address of the name: a terminal answer.
TrAnswer == Message("NOERROR", FALSE, <<Typed("A", <<HostIP>>)>>, <<>>, <<>>)

\* A CNAME to another name, with the address of the target behind it.
TrCname ==
    Message("NOERROR", FALSE, <<Typed("CNAME", <<Name(1)>>), Typed("A", <<HostIP>>)>>,
            <<>>, <<>>)

\* A CNAME back to the queried name, written without the final dot.
TrCnameBack == Message("NOERROR", FALSE, <<Typed("CNAME", << <<"n0">> >>)>>, <<>>, <<>>)

\* A referral with glue: two hostnames that share an address, an IPv6
\* address, and a record set that is no address.
TrGlue ==
    Message("NOERROR", FALSE, <<>>,
            <<Typed("NS", <<NsName(1), NsName(2)>>)>>,
            <<Typed("TXT", << <<"v=x">> >>), Typed("A", <<IP(2)>>),
              Typed("AAAA", <<V6(1)>>), Typed("A", <<IP(2)>>)>>)

\* A referral without glue that names NsCount hostnames, one of them twice
\* and one without the final dot, next to a DS record.
TrRefer ==
    Message("NOERROR", FALSE, <<>>,
            <<Typed("NS", <<NsName(1), <<"ns2">>, NsName(3)>>),
              Typed("DS", << <<"ds">> >>),
              Typed("NS", <<NsName(1)>> \o [i \in 1..(MaxNsLookups - 2) |-> NsName(i + 3)])>>,
            <<>>)

\* No data: NOERROR, no answer, an SOA in the authority section.
TrNoData == Message("NOERROR", FALSE, <<>>, <<Typed("SOA", << <<"soa">> >>)>>, <<>>)

\* A name error behind a CNAME: the answer section holds the CNAME record.
TrNxdomain ==
    Message("NXDOMAIN", FALSE, <<Typed("CNAME", <<Name(1)>>)>>,
            <<Typed("SOA", << <<"soa">> >>)>>, <<>>)

TrServfail == Message("SERVFAIL", FALSE, <<>>, <<>>, <<>>)

\* A truncated response.
TrTrunc == Message("NOERROR", TRUE, <<>>, <<>>, <<>>)

TraceResponses ==
    {TrAnswer, TrCname, TrCnameBack, TrGlue, TrRefer, TrNoData, TrNxdomain, TrServfail, TrTrunc}

\* What dns.query.udp yields: a transport error or a response.
UdpOutcomes == {None} \cup {Some(r) : r \in TraceResponses}

\* What dns.query.tcp yields after a truncated UDP response.
TcpOutcomes == {None, Some(TrAnswer), Some(TrGlue), Some(TrServfail), Some(TrTrunc)}

\* A world whose servers answer freely and resolve hostnames as w says.
FreeEnv(w) == [QuietEnv EXCEPT !.ns = w]

\* The tracer against freely answering servers: any response to any query.
InitTrace ==
    /\ now = 0
    /\ ticks = 0
    /\ max_items = 1
    /\ data = <<>>
    /\ op = NoOp
    /\ lastSet = None
    /\ tries_arg = 2
    /\ tries = DNSResolver_init(tries_arg)
    /\ Idle
    /\ env \in {FreeEnv(w) : w \in NsWorlds}
    /\ TraceIdle
    /\ PostureIdle

NextTrace ==
    \/ \E qtype \in {<<"a">>, <<"CNAME">>}, max_steps \in 0..MaxSteps,
          roots \in {RootHints, [i \in 1..3 |-> RootHints[4 - i]]} :
          TraceBegin(<<"n0">>, qtype, max_steps, roots)
    \/ \E udp \in UdpOutcomes, tcp \in TcpOutcomes : TraceHop(udp, tcp)

SpecTrace == InitTrace /\ [][NextTrace]_vars

(* A world of delegations and CNAME chains.  Name(0) .. Name(e.chain) form a   *)
(* chain: each is a CNAME for the next, and the last one has an address, or,   *)
(* if e.loop is set, is a CNAME for Name(e.loop).  Every name lies e.depth     *)
(* referrals below the root: a server of level j < e.depth refers to the       *)
(* server of level j + 1 (IP(j + 1), hostname NsName(j + 1)), with glue if     *)
(* e.glue; the server of level e.depth answers.                                *)

ChainEnv(k, loop, depth, glue) ==
    [ns |-> "levels", chain |-> k, loop |-> loop, depth |-> depth, glue |-> glue]

\* The level of a server: the root servers are level 0.
LevelOf(server) ==
    IF \E i \in 1..Len(RootHints) : RootHints[i] = server THEN 0
    ELSE CHOOSE j \in 1..MaxDepth : IP(j) = server

\* What the server answers to a query for name current of type qtype.
WorldResp(e, server, current, qtype) ==
    LET level == LevelOf(server)
        i == CHOOSE j \in 0..MaxChain : Name(j) = current
    IN  IF level < e.depth
        THEN Message("NOERROR", FALSE, <<>>, <<Typed("NS", <<NsName(level + 1)>>)>>,
                     IF e.glue THEN <<Typed("A", <<IP(level + 1)>>)>> ELSE <<>>)
        ELSE IF i < e.chain
        THEN Message("NOERROR", FALSE, <<Typed("CNAME", <<Name(i + 1)>>)>>, <<>>, <<>>)
        ELSE IF IsSome(e.loop)
        THEN Message("NOERROR", FALSE, <<Typed("CNAME", <<Name(Get(e.loop))>>)>>, <<>>, <<>>)
        ELSE IF qtype = <<"CNAME">> THEN TrNoData
        ELSE TrAnswer

\* The chains tried: every length, ending in an address or in a CNAME for
\* the first name, for a name in the middle, or for the last name itself.
ChainWorlds ==
    UNION {{ChainEnv(k, loop, depth, glue) :
               loop \in {None, Some(0), Some(k \div 2), Some(k)},
               depth \in 0..MaxDepth, glue \in BOOLEAN} : k \in 0..MaxChain}

InitChain ==
    /\ now = 0
    /\ ticks = 0
    /\ max_items = 1
    /\ data = <<>>
    /\ op = NoOp
    /\ lastSet = None
    /\ tries_arg = 2
    /\ tries = DNSResolver_init(tries_arg)
    /\ Idle
    /\ env \in ChainWorlds
    /\ TraceIdle
    /\ PostureIdle

\* The servers of the world answer the query of the iteration.
ChainHop ==
    /\ tpc = "loop"
    /\ TraceHop(Some(WorldResp(env, Get(tr).servers[1], Get(tr).current, Get(tr).qtype)), None)

\* The program's own calls: max_steps is left at its default.
ChainBegin ==
    \E qtype \in {<<"A">>, <<"CNAME">>}, roots \in RootOrders :
        TraceBegin(Name(0), qtype, DefaultMaxSteps, roots)

NextChain == ChainBegin \/ ChainHop

SpecChain == InitChain /\ [][NextChain]_vars

\* The query of ChainHop alone: every ChainHop step is a ChainSend step, and
\* ChainSend is enabled exactly when ChainHop is (while the call is in its
\* loop).
ChainSend ==
    /\ tpc = "loop"
    /\ sent' = Append(sent, QueryEntry(Get(tr),
                                       Some(WorldResp(env, Get(tr).servers[1],
                                                      Get(tr).current, Get(tr).qtype)),
                                       None))

\* The loop of a running call goes on until the call returns or raises:
\* weak fairness of the iteration, stated on its query.
SpecChainFair == SpecChain /\ WF_sent(ChainSend)

---------------------------------------------------------------------------
(* The report score, _score_report (cli.py).  Here a text is a sequence of  *)
(* characters; str.lower() and the substring test `in` are computed.        *)

\* The findings lists tried have at most this many entries.
MaxFindings == 5

\* cli.py:126: the score of a report without findings.
BaseScore == 100

\* cli.py:130: the cost of a finding that names a takeover or a permissive policy.
PenaltyHigh == 25

\* cli.py:132: the cost of a finding that names something missing.
PenaltyMissing == 15

\* cli.py:134: the cost of a finding that names a weak or monitoring-only policy.
PenaltyWeak == 8

\* cli.py:136: the cost of any other finding.
PenaltyOther == 5

UpperLetters ==
    <<"A", "B", "C", "D", "E", "F", "G", "H", "I", "J", "K", "L", "M",
      "N", "O", "P", "Q", "R", "S", "T", "U", "V", "W", "X", "Y", "Z">>

LowerLetters ==
    <<"a", "b", "c", "d", "e", "f", "g", "h", "i", "j", "k", "l", "m",
      "n", "o", "p", "q", "r", "s", "t", "u", "v", "w", "x", "y", "z">>

\* str.lower() on ASCII text.
str_lower(s) ==
    [i \in 1..Len(s) |->
        IF \E k \in 1..26 : UpperLetters[k] = s[i]
        THEN LowerLetters[CHOOSE k \in 1..26 : UpperLetters[k] = s[i]]
        ELSE s[i]]

\* pat in s
Contains(s, pat) ==
    \E i \in 0..(Len(s) - Len(pat)) : SubSeq(s, i + 1, i + Len(pat)) = pat

KwPermissive ==
    <<"o", "v", "e", "r", "l", "y", " ", "p", "e", "r", "m", "i", "s",
      "s", "i", "v", "e">>

KwTakeover == <<"t", "a", "k", "e", "o", "v", "e", "r">>

KwMissing == <<"m", "i", "s", "s", "i", "n", "g">>

KwWeak == <<"w", "e", "a", "k">>

KwMonitoring == <<"m", "o", "n", "i", "t", "o", "r", "i", "n", "g">>

\* The if / elif chain of the loop body: what one finding costs.
Penalty(f) ==
    LET lf == str_lower(f)
    IN  IF Contains(lf, KwPermissive) \/ Contains(lf, KwTakeover) THEN PenaltyHigh
        ELSE IF Contains(lf, KwMissing) THEN PenaltyMissing
        ELSE IF Contains(lf, KwWeak) \/ Contains(lf, KwMonitoring) THEN PenaltyWeak
        ELSE PenaltyOther

\* for f in findings: score -= ...
RECURSIVE ScoreLoop(_, _)
ScoreLoop(fs, s) ==
    IF fs = <<>> THEN s ELSE ScoreLoop(Tail(fs), s - Penalty(fs[1]))

\* _score_report returning min(100, score): the lower clamp forgotten.
_score_report_no_floor(fs) == Min(BaseScore, ScoreLoop(fs, BaseScore))

\* _score_report: max(0, min(100, score))
_score_report(fs) == Max(0, Min(BaseScore, ScoreLoop(fs, BaseScore)))

\* Findings as the checks word them (a takeover note that also says
\* "missing", in capitals; the warnings of parse_spf and parse_dmarc).
FindingSamples ==
    {<<"P", "o", "t", "e", "n", "t", "i", "a", "l", " ", "T", "A", "K",
       "E", "O", "V", "E", "R", " ", "r", "i", "s", "k", ":", " ", "t",
       "a", "r", "g", "e", "t", " ", "m", "i", "s", "s", "i", "n", "g">>,
     <<"S", "P", "F", " ", "i", "s", " ", "o", "v", "e", "r", "l", "y",
       " ", "p", "e", "r", "m", "i", "s", "s", "i", "v", "e", " ", "(",
       "+", "a", "l", "l", ")">>,
     <<"D", "M", "A", "R", "C", " ", "m", "i", "s", "s", "i", "n", "g",
       " ", "p", "=", " ", "p", "o", "l", "i", "c", "y", ".">>,
     <<"S", "P", "F", " ", "i", "s", " ", "w", "e", "a", "k", " ", "(",
       "~", "a", "l", "l", ")", ".">>,
     <<"D", "M", "A", "R", "C", " ", "p", "o", "l", "i", "c", "y", " ",
       "i", "s", " ", "p", "=", "n", "o", "n", "e", " ", "(", "m", "o",
       "n", "i", "t", "o", "r", "i", "n", "g", " ", "o", "n", "l", "y",
       ")", ".">>,
     <<"N", "o", " ", "D", "M", "A", "R", "C", " ", "r", "e", "c", "o",
       "r", "d", " ", "f", "o", "u", "n", "d", ".">>}

FindingLists == UNION {[1..n -> FindingSamples] : n \in 0..MaxFindings}

\* _score_report applied to the findings list drawn at the start.
InitScore ==
    /\ now = 0
    /\ ticks = 0
    /\ max_items = 1
    /\ data = <<>>
    /\ op = NoOp
    /\ lastSet = None
    /\ tries_arg = 1
    /\ tries = DNSResolver_init(tries_arg)
    /\ Idle
    /\ env = QuietEnv
    /\ TraceIdle
    /\ findings \in FindingLists
    /\ score = None
    /\ spf = <<>>
    /\ spf_result = None

ScoreReport ==
    /\ score = None
    /\ score' = Some(_score_report(findings))
    /\ UNCHANGED <<clockVars, cacheVars, bareVars, cfgVars, callVars, traceVars,
                   findings, spf, spf_result>>

NextScore == ScoreReport

SpecScore == InitScore /\ [][NextScore]_vars

---------------------------------------------------------------------------
(* The SPF parser, parse_spf (checks/email.py), on texts that are sequences *)
(* of characters.  The two regular expressions are computed position by     *)
(* position: \b holds between two characters of which exactly one is a word *)
(* character, the ends of the text counting as non-word.                    *)

\* The records tried have at most this many runs of terms after the version.
MaxTerms == 3

\* email.py:49: the number of lookup mechanisms above which a warning is given.
MaxSpfLookups == 10

Whitespace == {" ", "\t"}

RECURSIVE LStrip(_)
LStrip(s) == IF s # <<>> /\ s[1] \in Whitespace THEN LStrip(Tail(s)) ELSE s

RECURSIVE RStrip(_)
RStrip(s) ==
    IF s # <<>> /\ s[Len(s)] \in Whitespace THEN RStrip(SubSeq(s, 1, Len(s) - 1)) ELSE s

\* str.strip()
str_strip(s) == RStrip(LStrip(s))

\* str.startswith(p)
startswith(s, p) == Len(s) >= Len(p) /\ SubSeq(s, 1, Len(p)) = p

Digits == {"0", "1", "2", "3", "4", "5", "6", "7", "8", "9"}

\* \w
WordChars == {UpperLetters[k] : k \in 1..26} \cup {LowerLetters[k] : k \in 1..26}
                 \cup Digits \cup {"_"}

IsWord(s, i) == i \in 1..Len(s) /\ s[i] \in WordChars

\* \b right before the character at place i (i = Len(s) + 1: at the end).
Boundary(s, i) == IsWord(s, i - 1) # IsWord(s, i)

Qualifiers == {"+", "-", "~", "?"}

KwAll == <<"a", "l", "l">>

PlusAll == <<"+", "a", "l", "l">>

TildeAll == <<"~", "a", "l", "l">>

QueryAll == <<"?", "a", "l", "l">>

VSpf1 == <<"v", "=", "s", "p", "f", "1">>

\* (\+all|-all|~all|\?all)\b matches at place i.
AllAt(s, i) ==
    /\ i + 3 <= Len(s)
    /\ s[i] \in Qualifiers
    /\ SubSeq(s, i + 1, i + 3) = KwAll
    /\ Boundary(s, i + 4)

\* re.search(r"(\+all|-all|~all|\?all)\b", s): group 1 of the leftmost match.
SearchAll(s) ==
    IF \E i \in 1..Len(s) : AllAt(s, i)
    THEN LET i == CHOOSE k \in 1..Len(s) : AllAt(s, k) /\ \A j \in 1..(k - 1) : ~AllAt(s, j)
         IN  Some(SubSeq(s, i, i + 3))
    ELSE None

\* The length of the match of \b(include:|redirect=|exists:|ptr|mx\b|a\b) at
\* place i, 0 when there is none.
MechAt(s, i) ==
    LET Has(p) == i + Len(p) - 1 <= Len(s) /\ SubSeq(s, i, i + Len(p) - 1) = p
    IN  IF ~Boundary(s, i) THEN 0
        ELSE IF Has(<<"i", "n", "c", "l", "u", "d", "e", ":">>) THEN 8
        ELSE IF Has(<<"r", "e", "d", "i", "r", "e", "c", "t", "=">>) THEN 9
        ELSE IF Has(<<"e", "x", "i", "s", "t", "s", ":">>) THEN 7
        ELSE IF Has(<<"p", "t", "r">>) THEN 3
        ELSE IF Has(<<"m", "x">>) /\ Boundary(s, i + 2) THEN 2
        ELSE IF Has(<<"a">>) /\ Boundary(s, i + 1) THEN 1
        ELSE 0

\* len(re.findall(...)): the matches from place i on, none overlapping.
RECURSIVE CountMechs(_, _)
CountMechs(s, i) ==
    IF i > Len(s) THEN 0
    ELSE IF MechAt(s, i) > 0 THEN 1 + CountMechs(s, i + MechAt(s, i))
    ELSE CountMechs(s, i + 1)

SPFResult(raw, policy, warnings) == [raw |-> raw, policy |-> policy, warnings |-> warnings]

WarnNotSpf ==
    <<"N", "o", "t", " ", "a", "n", " ", "S", "P", "F", " ", "r", "e",
      "c", "o", "r", "d", " ", "(", "m", "i", "s", "s", "i", "n", "g",
      " ", "v", "=", "s", "p", "f", "1", ")">>

WarnPermissive ==
    <<"S", "P", "F", " ", "i", "s", " ", "o", "v", "e", "r", "l", "y",
      " ", "p", "e", "r", "m", "i", "s", "s", "i", "v", "e", " ", "(",
      "+", "a", "l", "l", ")", ":", " ", "a", "n", "y", "o", "n", "e",
      " ", "c", "a", "n", " ", "s", "e", "n", "d", " ", "e", "m", "a",
      "i", "l", " ", "a", "s", " ", "t", "h", "i", "s", " ", "d", "o",
      "m", "a", "i", "n", ".">>

\* f"SPF is weak ({policy}). Consider -all for strict policy when appropriate."
WarnWeak(policy) ==
    LET head == <<"S", "P", "F", " ", "i", "s", " ", "w", "e", "a", "k", " ", "(">>
        tail ==
               <<")", ".", " ", "C", "o", "n", "s", "i", "d", "e", "r", " ", "-",
               "a", "l", "l", " ", "f", "o", "r", " ", "s", "t", "r", "i", "c",
               "t", " ", "p", "o", "l", "i", "c", "y", " ", "w", "h", "e", "n",
               " ", "a", "p", "p", "r", "o", "p", "r", "i", "a", "t", "e", ".">>
    IN  head \o policy \o tail

WarnNoAll ==
    <<"S", "P", "F", " ", "r", "e", "c", "o", "r", "d", " ", "h", "a",
      "s", " ", "n", "o", " ", "e", "x", "p", "l", "i", "c", "i", "t",
      " ", "a", "l", "l", " ", "m", "e", "c", "h", "a", "n", "i", "s",
      "m", ";", " ", "p", "o", "l", "i", "c", "y", " ", "u", "n", "c",
      "l", "e", "a", "r", ".">>

WarnLookups ==
    <<"S", "P", "F", " ", "l", "i", "k", "e", "l", "y", " ", "e", "x",
      "c", "e", "e", "d", "s", " ", "1", "0", "-", "D", "N", "S", "-",
      "l", "o", "o", "k", "u", "p", " ", "l", "i", "m", "i", "t", " ",
      "(", "m", "a", "y", " ", "f", "a", "i", "l", ")", ".">>

\* parse_spf
parse_spf(raw) ==
    LET s == str_strip(raw)
        m == SearchAll(s)
        w1 == IF m = None THEN <<WarnNoAll>>
              ELSE (IF Get(m) = PlusAll THEN <<WarnPermissive>> ELSE <<>>)
                   \o (IF Get(m) \in {TildeAll, QueryAll}
                       THEN <<WarnWeak(Get(m))>> ELSE <<>>)
        w2 == IF CountMechs(s, 1) > MaxSpfLookups THEN <<WarnLookups>> ELSE <<>>
    IN  IF ~startswith(str_lower(s), VSpf1)
        THEN SPFResult(raw, None, <<WarnNotSpf>>)
        ELSE SPFResult(raw, m, w1 \o w2)

\* The versions tried: plain, in capitals after a blank, and not SPF at all.
SpfVersions ==
    {<<"v", "=", "s", "p", "f", "1">>,
     <<" ", "V", "=", "S", "P", "F", "1">>,
     <<"v", "=", "s", "p", "f", "2">>}

\* The runs of terms tried: the all mechanism with each qualifier, without
\* one and in capitals, an include of a host whose name contains "-all", a
\* lookup mechanism, and ten lookup mechanisms in a row.
SpfTerms ==
    {<<"-", "a", "l", "l">>,
     <<"+", "a", "l", "l">>,
     <<"~", "a", "l", "l">>,
     <<"?", "a", "l", "l">>,
     <<"a", "l", "l">>,
     <<"-", "A", "L", "L">>,
     <<"i", "n", "c", "l", "u", "d", "e", ":", "x", "-", "a", "l", "l",
       ".", "i", "o">>,
     <<"m", "x">>,
     <<"a", " ", "a", " ", "a", " ", "a", " ", "a", " ", "a", " ", "a",
       " ", "a", " ", "a", " ", "a">>}

\* The text of a record: the version, then each run after a blank.
RECURSIVE SpfRecord(_, _)
SpfRecord(version, terms) ==
    IF terms = <<>> THEN version
    ELSE SpfRecord(version \o <<" ">> \o terms[1], Tail(terms))

SpfRecords ==
    {SpfRecord(v, ts) : v \in SpfVersions,
                        ts \in UNION {[1..n -> SpfTerms] : n \in 0..MaxTerms}}

\* parse_spf applied to the record drawn at the start.
InitSpf ==
    /\ now = 0
    /\ ticks = 0
    /\ max_items = 1
    /\ data = <<>>
    /\ op = NoOp
    /\ lastSet = None
    /\ tries_arg = 1
    /\ tries = DNSResolver_init(tries_arg)
    /\ Idle
    /\ env = QuietEnv
    /\ TraceIdle
    /\ findings = <<>>
    /\ score = None
    /\ spf \in SpfRecords
    /\ spf_result = None

ParseSpf ==
    /\ spf_result = None
    /\ spf_result' = Some(parse_spf(spf))
    /\ UNCHANGED <<clockVars, cacheVars, bareVars, cfgVars, callVars, traceVars,
                   findings, score, spf>>

NextSpf == ParseSpf

SpecSpf == InitSpf /\ [][NextSpf]_vars

---------------------------------------------------------------------------
(* Claims about the bare cache (checked under SpecCache). *)

\* C5: for ttl > 0, after set(key, value, ttl) executed at time `at` and until
\* the next set call, get(key) returns value at every time < at + ttl and
\* absent at every time >= at + ttl.
C5_SetThenGet ==
    (op.kind = "get" /\ IsSome(lastSet) /\ Get(lastSet).key = op.key /\ Get(lastSet).ttl > 0)
        => IF now < Get(lastSet).at + Get(lastSet).ttl
           THEN op.value = Some(Get(lastSet).value)
           ELSE op.value = None

\* A get one second before the expiry of a two-second entry returns the value.
C5_Witness ==
    /\ op.kind = "get" /\ IsSome(lastSet) /\ Get(lastSet).key = op.key
    /\ Get(lastSet).ttl = 2
    /\ now = Get(lastSet).at + 1
    /\ op.value = Some(Get(lastSet).value)

\* C6: after any sequence of set and get calls the number of stored entries
\* never exceeds max_items.
C6_Capacity == Len(data) <= max_items

\* A set that took effect on a cache at capacity, which is still at capacity.
C6_Witness ==
    /\ op.kind = "set" /\ op.full /\ Get(lastSet).ttl > 0
    /\ op.key = data[Len(data)].key
    /\ Len(data) = max_items /\ max_items = 2

\* C7: get returns a value only from an entry whose expiry is after the
\* current time; a get that finds an expired entry removes exactly that key and
\* returns absent; a get that finds an unexpired entry or none changes nothing.
C7_GetFrame ==
    [][ op'.kind = "get" =>
          LET key == op'.key
              hit == {i \in 1..Len(data) : data[i].key = key}
              live == {i \in hit : data[i].expires_at > now}
              IsOther(e) == e.key # key
          IN  /\ IsSome(op'.value) => \E i \in live : op'.value = Some(data[i].value)
              /\ (hit # {} /\ live = {}) =>
                    /\ op'.value = None
                    /\ data' = SelectSeq(data, IsOther)
                    /\ Len(data') = Len(data) - 1
              /\ (hit = {} \/ live # {}) => data' = data
      ]_vars

\* A get found an entry at the very second of its expiry and removed it.
C7_Witness ==
    /\ op.kind = "get" /\ op.found /\ op.value = None
    /\ op.key \notin Keys(data)
    /\ IsSome(lastSet) /\ Get(lastSet).key = op.key /\ Get(lastSet).ttl > 0
    /\ now = Get(lastSet).at + Get(lastSet).ttl
    /\ data # <<>>

---------------------------------------------------------------------------
(* Claims about DNSResolver.query. *)

C == Get(call)

LS == Get(lastStore)

UdpAttempts == {i \in 1..Len(log) : ~log[i].tcp}

TcpAttempts == {i \in 1..Len(log) : log[i].tcp}

Errors == {i \in 1..Len(log) : log[i].resp = None}

\* A UDP attempt whose response had the truncation flag set.
Truncated(i) == ~log[i].tcp /\ IsSome(log[i].resp) /\ Get(log[i].resp).tc

\* The call is over and was not answered from the cache.
Finished == pc \in {"returned", "raised"} /\ C.served = None

\* The call was answered from the cache.
Hit == pc = "returned" /\ IsSome(call) /\ IsSome(C.served)

\* min(max(ttl, 0), 3600), written out.
Lifetime(ttl) == IF ttl < 0 THEN 0 ELSE IF ttl > MaxCacheTTL THEN MaxCacheTTL ELSE ttl

\* C1: with TCP fallback allowed, once a UDP attempt returns a truncated
\* response, exactly one TCP attempt is made and no further UDP attempt,
\* whatever the outcome of that TCP attempt.
C1_OneTcpAfterTruncation ==
    (IsSome(call) /\ C.use_tcp_fallback) =>
        \A i \in 1..Len(log) :
            Truncated(i) =>
                /\ \A j \in (i + 1)..Len(log) : log[j].tcp
                /\ Cardinality({j \in (i + 1)..Len(log) : log[j].tcp}) <= 1
                /\ pc \in {"returned", "raised"} => Len(log) = i + 1

\* C2: when every UDP attempt of a call fails with a transport error, the call
\* makes exactly tries = max(1, configured) UDP attempts; with fallback it then
\* makes exactly one TCP attempt and raises iff that one fails; without
\* fallback it makes no TCP attempt and raises.
C2_AllUdpFail ==
    (IsSome(call) /\ Finished /\ UdpAttempts \subseteq Errors) =>
        /\ tries = (IF tries_arg < 1 THEN 1 ELSE tries_arg)
        /\ UdpAttempts = 1..tries
        /\ C.use_tcp_fallback =>
              /\ TcpAttempts = {tries + 1}
              /\ pc = "raised" <=> log[tries + 1].resp = None
        /\ ~C.use_tcp_fallback =>
              /\ TcpAttempts = {}
              /\ pc = "raised"

\* Two UDP failures, then the TCP fallback answers.
C2_Witness ==
    /\ pc = "returned" /\ IsSome(call) /\ C.served = None
    /\ C.use_tcp_fallback /\ tries = 2
    /\ Len(log) = 3 /\ Errors = {1, 2}

\* C3: query raises only when every attempt it made yielded no answer (a
\* transport error, or a truncated UDP response discarded for the fallback), all
\* UDP attempts and, if enabled, the TCP fallback having been made; the error
\* raised is the last transport error met; the call leaves the cache as its
\* lookup left it.
C3_RaiseOnlyWhenAllFailed ==
    pc = "raised" =>
        /\ \A i \in 1..Len(log) : i \in Errors \/ (Truncated(i) /\ C.use_tcp_fallback)
        /\ Cardinality(UdpAttempts) = tries
        /\ C.use_tcp_fallback => (Len(log) \in TcpAttempts /\ Len(log) \in Errors)
        /\ Errors # {}
        /\ raised = Some(CHOOSE i \in Errors : \A j \in Errors : j <= i)
        /\ result = None
        /\ data = C.data0

\* A call raised after a UDP and a TCP failure, with an answer of an earlier
\* call still in the cache.
C3_Witness ==
    /\ pc = "raised" /\ C.use_tcp_fallback
    /\ Len(log) >= 2 /\ Errors = 1..Len(log)
    /\ data # <<>>

---------------------------------------------------------------------------
(* Claims about what query caches (checked under SpecTTL and SpecKeys). *)

\* The call stands right after its cache lookup: no attempt made yet.
AfterLookup == IsSome(call) /\ log = <<>>

\* The entry lastStore is still within its lifetime when the call looks up.
InWindow == C.t0 < LS.stored_at + Lifetime(Get(LS.value.ttl))

\* C4: a call with the same (name, type, server, want_dnssec) as the call that
\* last stored an answer, made within that answer's cached lifetime, does no
\* network I/O and returns that very Answer.
C4_SecondCallHits ==
    (AfterLookup /\ IsSome(lastStore) /\ Params(C) = LS.by /\ InWindow) =>
        /\ pc = "returned"
        /\ IsSome(C.served)
        /\ result = Some(LS.value)
        /\ data = C.data0

\* A second call, later than the first but within its lifetime, served from
\* the entry the first call stored after its TCP fallback.
C4_Witness ==
    /\ AfterLookup /\ IsSome(lastStore) /\ Params(C) = LS.by
    /\ C.t0 > LS.stored_at /\ InWindow
    /\ LS.value.meta.tcp
    /\ Hit

\* C8: an Answer is stored only if it carries a TTL, with a lifetime of
\* min(max(ttl, 0), 3600) seconds (an answer whose lifetime is 0 is not
\* stored); a hit is served less than 3600 seconds after the entry was stored
\* and never carries no TTL or a TTL of 0.
C8_CachedLifetime ==
    /\ \A i \in 1..Len(data) :
          /\ IsSome(data[i].value.ttl)
          /\ data[i].expires_at - data[i].stored_at = Lifetime(Get(data[i].value.ttl))
          /\ data[i].expires_at - data[i].stored_at \in 1..MaxCacheTTL
    /\ (pc = "returned" /\ C.served = None) =>
          LET ans == Get(result)
          IN  IF ans.ttl = None \/ ans.ttl = Some(0)
              THEN data = C.data0
              ELSE \E i \in 1..Len(data) :
                      /\ data[i].value = ans
                      /\ data[i].stored_at >= C.t0
                      /\ data[i].expires_at = data[i].stored_at + Lifetime(Get(ans.ttl))
    /\ Hit =>
          /\ C.t0 - Get(C.served).stored_at < MaxCacheTTL
          /\ IsSome(Get(result).ttl)
          /\ Get(Get(result).ttl) > 0

\* An answer with a TTL of 7200 served from the cache 3599 seconds after it
\* was stored.
C8_Witness ==
    /\ Hit
    /\ Get(result).ttl = Some(2 * MaxCacheTTL)
    /\ C.t0 = Get(C.served).stored_at + MaxCacheTTL - 1

\* Equal up to letter case.
SameUpToCase(a, b) ==
    /\ Len(a) = Len(b)
    /\ \A i \in 1..Len(a) : a[i] = b[i] \/ UpperChar(a[i]) = b[i] \/ a[i] = UpperChar(b[i])

\* The length of s without its trailing dots.
CoreLen(s) ==
    CHOOSE k \in 0..Len(s) :
        /\ k = 0 \/ s[k] # "."
        /\ \A j \in (k + 1)..Len(s) : s[j] = "."

\* Equal up to letter case and trailing dots.
SameName(a, b) == SameUpToCase(SubSeq(a, 1, CoreLen(a)), SubSeq(b, 1, CoreLen(b)))

\* The same server, type (case-insensitively), want_dnssec flag and name (up
\* to letter case and trailing dots).
SameQuery(p, q) ==
    /\ p.server = q.server
    /\ SameUpToCase(p.qtype, q.qtype)
    /\ p.want_dnssec = q.want_dnssec
    /\ SameName(p.qname, q.qname)

\* C9: a hit is served only from an entry stored for the same server, type
\* (case-insensitively), want_dnssec flag and name up to letter case and
\* trailing dots; and a call that differs from the last storing call in letter
\* case or trailing dots only, made within the lifetime, is served its entry.
C9_KeyNormalisation ==
    /\ Hit => SameQuery(Params(C), Get(C.served).by)
    /\ (AfterLookup /\ IsSome(lastStore) /\ SameQuery(Params(C), LS.by) /\ InWindow) =>
          /\ Hit
          /\ result = Some(LS.value)

\* "a" served from the entry stored for "A.".
C9_Witness ==
    /\ Hit
    /\ C.qname = <<"a">>
    /\ Get(C.served).by.qname = <<"A", ".">>
    /\ Get(result).qname = <<"A", ".">>

\* C10: in every Answer query builds, ttl is present iff the wire response had
\* a non-empty answer section, and then it is the TTL of the first record set.
C10_TtlOfFirstRRset ==
    (pc = "returned" /\ C.served = None) =>
        LET wire == Get(log[Len(log)].resp)
            ans == Get(result)
        IN  /\ IsSome(ans.ttl) <=> wire.answer # <<>>
            /\ wire.answer # <<>> => ans.ttl = Some(wire.answer[1].ttl)

\* An Answer built from a response with two record sets of different TTLs.
C10_Witness ==
    /\ pc = "returned" /\ C.served = None
    /\ Len(Get(log[Len(log)].resp).answer) = 2
    /\ Get(result).ttl = Some(2 * MaxCacheTTL)

---------------------------------------------------------------------------
(* Claims about iterative_trace. *)

\* The locals of the trace, and the TraceResult it returned.
T == Get(tr)

TR == Get(tresult)

\* The response the i-th query of the main loop ended with (None: a
\* transport error): the TCP one if the UDP one was truncated.
RespOf(i) == IF sent[i].truncated THEN sent[i].tcp ELSE sent[i].udp

\* The answer section holds a CNAME record.
HasCname(resp) ==
    \E i \in 1..Len(resp.answer) :
        resp.answer[i].rdtype = "CNAME" /\ resp.answer[i].items # <<>>

\* The response is NOERROR with an answer that the trace has to take as
\* final: no CNAME in it, or CNAME is the type asked for.
TerminalAnswer(resp, qtype) ==
    /\ resp.rcode = "NOERROR"
    /\ resp.answer # <<>>
    /\ ~HasCname(resp) \/ qtype = <<"CNAME">>

\* C11: a returned trace has final answers only if its last step was NOERROR
\* with a non-empty, terminal answer section, and then (and whenever the last
\* step is such) the final answers are that step's answer texts; a trace that
\* stopped on a bad rcode, an unresolvable referral, a CNAME cycle, the
\* CNAME-hop limit or the step budget has no final answers.
C11_FinalAnswers ==
    tpc = "done" =>
        LET n == Len(TR.steps)
        IN  /\ TR.final_answers # <<>> =>
                /\ n > 0
                /\ TR.steps[n].rcode = "NOERROR"
                /\ TR.steps[n].answers # <<>>
                /\ TerminalAnswer(Get(RespOf(n)), TR.qtype)
            /\ (n > 0 /\ TerminalAnswer(Get(RespOf(n)), TR.qtype)) =>
                TR.final_answers = TR.steps[n].answers
            /\ T.stop \in {"rcode", "no_ns", "no_ns_ips", "cycle", "hops", "budget", "no_servers"} =>
                TR.final_answers = <<>>

\* A trace of several steps that returned final answers.
C11_Witness ==
    /\ tpc = "done"
    /\ Len(TR.steps) = MaxSteps
    /\ TR.final_answers = <<HostIP>>
    /\ T.stop = "answer"

(* Claims about CNAME chains (checked under SpecChain). *)

\* The world is a chain that ends in an address: every name of it resolves,
\* through one or more referrals from the root, and the last one has a
\* terminal answer for the type asked.
ResolvingChain ==
    /\ env.loop = None
    /\ env.depth >= 1
    /\ T.qtype # <<"CNAME">>

\* The number of queries a walk of the whole chain takes: for each of its
\* names the referrals from the root, then the answer.
StepsNeeded == (env.chain + 1) * (env.depth + 1)

\* The trace returned the address of the last name and holds, for every
\* name of the chain, the step that answered it.
ChainResolved ==
    /\ TR.final_answers = <<HostIP>>
    /\ TR.final_answers = TR.steps[Len(TR.steps)].answers
    /\ \A i \in 0..env.chain :
           \E j \in 1..Len(TR.steps) :
               /\ TR.steps[j].qname = Name(i)
               /\ TR.steps[j].answers = <<IF i < env.chain THEN Name(i + 1) ELSE HostIP>>

\* C12 as stated: a trace of a resolving chain of at most MaxCnameHops links,
\* called with max_steps = DefaultMaxSteps, returns the last hop's answers and
\* the hops of every name of the chain.
C12_AnyChainResolves ==
    (tpc = "done" /\ ResolvingChain /\ env.chain <= MaxCnameHops) => ChainResolved

\* C12, amended: ... provided the walk takes at most max_steps queries.
C12_ChainResolves ==
    (tpc = "done" /\ ResolvingChain /\ env.chain <= MaxCnameHops
                  /\ StepsNeeded <= T.max_steps)
        => ChainResolved /\ Len(TR.steps) = StepsNeeded

\* A chain of MaxCnameHops links, each name two referrals deep, resolved.
C12_Witness ==
    /\ tpc = "done"
    /\ ResolvingChain
    /\ env.chain = MaxCnameHops
    /\ env.depth = 2
    /\ ChainResolved
    /\ T.cname_hops = MaxCnameHops

\* The CNAME indirections the trace has followed: the queries, other than
\* the last sent, that a CNAME answer ended and a query for its target
\* followed.
Followed ==
    Cardinality({i \in 1..(Len(sent) - 1) :
                    /\ RespOf(i) # None
                    /\ Get(RespOf(i)).rcode = "NOERROR"
                    /\ HasCname(Get(RespOf(i)))
                    /\ sent[i + 1].qname = EnsureDot(ItemsOf(Get(RespOf(i)).answer, {"CNAME"})[1])
                    /\ sent[i + 1].server = T.roots[1]})

\* C13 as stated: in a world whose CNAME chain repeats a target, a returned
\* trace has followed at most MaxCnameHops indirections and has no final
\* answers.
C13_AnyCycleStops ==
    (tpc = "done" /\ IsSome(env.loop)) =>
        Followed <= MaxCnameHops /\ TR.final_answers = <<>>

\* C13, amended: ... when the type asked for is not CNAME (a CNAME query is
\* answered by the first CNAME record, which is its final answer).
C13_CycleStops ==
    (tpc = "done" /\ IsSome(env.loop) /\ T.qtype # <<"CNAME">>) =>
        Followed <= MaxCnameHops /\ TR.final_answers = <<>>

\* A trace that came back to the name it was asked and stopped there.
C13_Witness ==
    /\ tpc = "done"
    /\ env.loop = Some(0)
    /\ env.chain = 2
    /\ T.qtype # <<"CNAME">>
    /\ T.stop = "cycle"
    /\ Followed = 3

\* The distinct names the steps of the trace asked for.
QueryNames == {T.steps[i].qname : i \in 1..Len(T.steps)}

\* C14: a call that meets no transport failure terminates: once in its loop
\* it returns, having recorded at most max_steps steps, followed at most
\* MaxCnameHops CNAME indirections and asked for at most MaxCnameHops + 1
\* distinct names.
C14_Terminates ==
    (tpc = "loop") ~>
        (/\ tpc = "done"
         /\ Len(TR.steps) <= T.max_steps
         /\ Followed <= MaxCnameHops
         /\ Cardinality(QueryNames) <= MaxCnameHops + 1)

\* A trace that stopped at the hop limit after MaxCnameHops indirections.
C14_Witness ==
    /\ tpc = "done"
    /\ T.stop = "hops"
    /\ Followed = MaxCnameHops
    /\ Cardinality(QueryNames) = MaxCnameHops + 1
    /\ Len(TR.steps) = 2 * (MaxCnameHops + 1)

(* Claims about one iteration of the loop (checked under SpecTrace). *)

\* The query the step just taken has sent, and the response it ended with.
LastSent == sent[Len(sent)]

LastResp == RespOf(Len(sent))

\* The step just taken has sent one query of the main loop.
Queried == Len(sent') = Len(sent) + 1

\* Where x first appears in the sequence s.
FirstAt(s, x) == CHOOSE k \in 1..Len(s) : s[k] = x /\ \A m \in 1..(k - 1) : s[m] # x

\* out lists the elements of s without repeats, in order of first appearance.
IsDedupOf(out, s) ==
    /\ {out[i] : i \in 1..Len(out)} = {s[k] : k \in 1..Len(s)}
    /\ \A i, j \in 1..Len(out) : i < j => FirstAt(s, out[i]) < FirstAt(s, out[j])

\* The addresses of the A and AAAA records of the additional section, in
\* order of appearance (repeats included).
GlueAddresses(resp) == ItemsOf(resp.additional, {"A", "AAAA"})

\* The query last sent was answered by a referral with glue: NOERROR, no
\* answer, at least one address in the additional section.
GlueReferral ==
    /\ LastResp # None
    /\ Get(LastResp).rcode = "NOERROR"
    /\ Get(LastResp).answer = <<>>
    /\ GlueAddresses(Get(LastResp)) # <<>>

\* C15: every query of the loop goes to the first candidate server, and
\* after a referral with glue the candidate servers are exactly the addresses
\* of the additional section's A and AAAA records, in order of appearance and
\* without repeats (the name asked for stays the same).
C15_GlueServers ==
    [][Queried =>
          /\ LastSent'.server = T.servers[1]
          /\ GlueReferral' =>
                /\ tpc' \in {"loop", "done"}
                /\ IsDedupOf(T'.servers, GlueAddresses(Get(LastResp)'))
                /\ T'.current = T.current]_vars

\* A referral with glue that repeats an address, and the query that followed.
C15_Witness ==
    /\ Len(sent) = 2
    /\ tpc \in {"loop", "done"}
    /\ RespOf(1) = Some(TrGlue)
    /\ sent[2].server = IP(2)
    /\ T.steps[2].server = IP(2)
    /\ T.steps[2].qname = T.steps[1].qname

\* The NS hostnames of the authority section, dot-terminated.
NsHosts(resp) ==
    {EnsureDot(resp.authority[i].items[j]) :
        <<i, j>> \in {p \in (1..Len(resp.authority)) \X (1..NsCount) :
                        /\ resp.authority[p[1]].rdtype = "NS"
                        /\ p[2] <= Len(resp.authority[p[1]].items)}}

\* The hostname resolves: its A or its AAAA lookup yields an address.
Resolves(ns) ==
    \E rdtype \in {"A", "AAAA"} :
        /\ NsQuery(env, ns, rdtype) # None
        /\ \E k \in 1..Len(Get(NsQuery(env, ns, rdtype))) : is_ip(Get(NsQuery(env, ns, rdtype))[k])

\* The query last sent was answered by a referral that cannot be followed:
\* NOERROR, no answer, no glue, and no NS hostname or none that resolves.
DeadReferral ==
    /\ LastResp # None
    /\ Get(LastResp).rcode = "NOERROR"
    /\ Get(LastResp).answer = <<>>
    /\ GlueAddresses(Get(LastResp)) = <<>>
    /\ \A ns \in NsHosts(Get(LastResp)) : ~Resolves(ns)

\* C16: a query answered by a referral that cannot be followed ends the
\* trace: it returns the steps recorded so far, that step included, and no
\* final answers.
C16_DeadReferralStops ==
    [][(Queried /\ DeadReferral') =>
          /\ tpc' = "done"
          /\ Len(TR'.steps) = Len(T.steps) + 1
          /\ SubSeq(TR'.steps, 1, Len(T.steps)) = T.steps
          /\ TR'.steps[Len(TR'.steps)].server = LastSent'.server
          /\ TR'.steps[Len(TR'.steps)].rcode = "NOERROR"
          /\ TR'.steps[Len(TR'.steps)].answers = <<>>
          /\ TR'.final_answers = <<>>]_vars

\* A referral to hostnames of which none resolves, after an earlier step,
\* with iterations to spare.
C16_Witness ==
    /\ tpc = "done"
    /\ Len(TR.steps) = 2
    /\ T.max_steps > 2
    /\ RespOf(2) = Some(TrRefer)
    /\ DeadReferral
    /\ T.stop = "no_ns_ips"

\* The NS hostnames of the authority section, dot-terminated, in order of
\* appearance (repeats included).
ReferralNames(resp) ==
    LET names == ItemsOf(resp.authority, {"NS"})
    IN  [i \in 1..Len(names) |-> EnsureDot(names[i])]

\* looked lists the first n distinct hostnames of names, in order of first
\* appearance.
IsFirstOf(looked, n, names) ==
    LET all == {names[i] : i \in 1..Len(names)}
        got == {looked[k] : k \in 1..Len(looked)}
    IN  /\ Len(looked) = n
        /\ got \subseteq all
        /\ Cardinality(got) = n
        /\ \A i, j \in 1..n : i < j => FirstAt(names, looked[i]) < FirstAt(names, looked[j])
        /\ \A h \in all \ got : \A k \in 1..n : FirstAt(names, looked[k]) < FirstAt(names, h)

\* The query last sent was answered by a referral without glue.
BareReferral ==
    /\ LastResp # None
    /\ Get(LastResp).rcode = "NOERROR"
    /\ Get(LastResp).answer = <<>>
    /\ GlueAddresses(Get(LastResp)) = <<>>
    /\ NsHosts(Get(LastResp)) # {}

\* The addresses among the records the lookups returned, in lookup order.
RECURSIVE Resolved(_)
Resolved(looks) ==
    IF looks = <<>> THEN <<>>
    ELSE LET out == Head(looks).out
         IN  (IF out = None THEN <<>>
              ELSE SelectSeq(Get(out), is_ip)) \o Resolved(Tail(looks))

\* C17: for a referral without glue the trace looks up the first MaxNsLookups
\* hostnames only, each for A and then for AAAA; a lookup that fails neither
\* raises out of the trace nor keeps the later lookups from being made; the
\* candidate servers are the addresses the lookups returned, in lookup order
\* without repeats, and with none the trace returns.
C17_NsLookups ==
    /\ [][(Queried /\ BareReferral') =>
             LET names == ReferralNames(Get(LastResp)')
                 n == Min(Cardinality(NsHosts(Get(LastResp)')), MaxNsLookups)
                 made == SubSeq(lookups', Len(lookups) + 1, Len(lookups'))
             IN  /\ Len(made) = 2 * n
                 /\ IsFirstOf([k \in 1..n |-> made[2 * k - 1].ns], n, names)
                 /\ \A k \in 1..n :
                       /\ made[2 * k - 1].rdtype = "A"
                       /\ made[2 * k].ns = made[2 * k - 1].ns
                       /\ made[2 * k].rdtype = "AAAA"
                 /\ \A k \in 1..Len(made) :
                       made[k].out = NsQuery(env, made[k].ns, made[k].rdtype)
                 /\ tpc' \in {"loop", "done"}
                 /\ IF Resolved(made) = <<>>
                    THEN tpc' = "done" /\ TR'.final_answers = <<>>
                    ELSE /\ IsDedupOf(T'.servers, Resolved(made))
                         /\ Cardinality({T'.servers[i] : i \in 1..Len(T'.servers)})
                                = Len(T'.servers)
                         /\ T'.current = T.current]_vars
    /\ [][~(Queried /\ BareReferral') => lookups' = lookups]_vars

\* Twelve lookups, the first of which failed, gave three servers, and the
\* trace goes on.
C17_Witness ==
    /\ tpc = "loop"
    /\ env.ns = "mixed"
    /\ Len(lookups) = 2 * MaxNsLookups
    /\ lookups[1].out = None
    /\ T.servers = <<V6(1), IP(2), IP(1)>>
    /\ Len(T.steps) = 1

\* C18: a response whose rcode is not NOERROR ends the trace at that step:
\* the call returns with the earlier steps unchanged, that step appended and
\* no final answers, and a call that has returned sends no further query.
C18_BadRcodeStops ==
    /\ [][(Queried /\ LastResp' # None /\ Get(LastResp)'.rcode # "NOERROR") =>
             /\ tpc' = "done"
             /\ TR'.steps = Append(T.steps, TR'.steps[Len(TR'.steps)])
             /\ TR'.steps[Len(TR'.steps)].rcode = Get(LastResp)'.rcode
             /\ TR'.steps[Len(TR'.steps)].server = LastSent'.server
             /\ TR'.final_answers = <<>>]_vars
    /\ [][tpc = "done" => UNCHANGED <<sent, lookups, tresult>>]_vars

\* A name error that carries a CNAME record ended the trace at its second
\* step, with an iteration to spare.
C18_Witness ==
    /\ tpc = "done"
    /\ Len(sent) = 2
    /\ T.max_steps > 2
    /\ RespOf(2) = Some(TrNxdomain)
    /\ TR.steps[2].rcode = "NXDOMAIN"
    /\ TR.final_answers = <<>>
    /\ T.stop = "rcode"

\* The error a failed query of the loop raises: which query, and whether it
\* was the TCP re-send.
TransportError == [at |-> Len(sent), tcp |-> LastSent.truncated]

\* C19: a transport error of the UDP send, or of the TCP re-send after a
\* truncated response, leaves iterative_trace at once: the call raises that
\* error, returns no TraceResult, and sends nothing more (no retry, no other
\* candidate server).
C19_TransportErrorRaises ==
    /\ [][(Queried /\ LastResp' = None) =>
             /\ tpc' = "raised"
             /\ traised' = Some(TransportError')
             /\ tresult' = None
             /\ lookups' = lookups]_vars
    /\ [][tpc = "raised" => UNCHANGED <<sent, lookups, tresult, traised>>]_vars
    /\ [](tpc = "raised" <=> (sent # <<>> /\ LastResp = None))

\* The TCP re-send of the second query failed, with a server and an
\* iteration to spare.
C19_Witness ==
    /\ tpc = "raised"
    /\ Len(sent) = 2
    /\ LastSent.truncated
    /\ LastSent.udp = Some(TrTrunc)
    /\ Len(T.servers) > 1
    /\ T.max_steps > 2
    /\ Len(T.steps) = 1
    /\ tresult = None

\* The step recorded for the i-th query carries that query and the response
\* it ended with.
StepMatches(i) ==
    LET s == T.steps[i]
        resp == Get(RespOf(i))
    IN  /\ s.server = sent[i].server
        /\ s.qname = sent[i].qname
        /\ s.qtype = T.qtype
        /\ s.rcode = resp.rcode
        /\ s.answers = Texts(resp.answer)
        /\ s.authority = Texts(resp.authority)
        /\ s.additional = Texts(resp.additional)
        /\ s.note = (IF sent[i].truncated THEN <<"udp_truncated->tcp">> ELSE <<>>)

\* The trace of the example: a root server refers, without glue, to
\* hostnames that resolve, and the first resolved server answers.
ReferThenAnswer ==
    /\ tpc = "done"
    /\ Len(sent) = 2
    /\ \E i \in 1..Len(RootHints) : sent[1].server = RootHints[i]
    /\ RespOf(1) = Some(TrRefer)
    /\ \E ns \in NsHosts(TrRefer) : Resolves(ns)
    /\ RespOf(2) # None
    /\ TerminalAnswer(Get(RespOf(2)), T.qtype)

\* C20: the steps are the queries of the main loop that got a response, one
\* step each, in order; a query re-sent over TCP is one step, which carries
\* the TCP response and the note; the NS-hostname lookups add no step.  So
\* a referral without glue from a root, a successful NS resolution and a
\* terminal answer make a trace of two steps with final answers.
C20_OneStepPerQuery ==
    /\ tpc \in {"loop", "done"} =>
          /\ Len(T.steps) = Len(sent)
          /\ \A i \in 1..Len(sent) : StepMatches(i)
    /\ tpc = "raised" =>
          /\ Len(T.steps) = Len(sent) - 1
          /\ \A i \in 1..(Len(sent) - 1) : StepMatches(i)
    /\ tpc = "done" => TR.steps = T.steps
    /\ ReferThenAnswer =>
          /\ lookups # <<>>
          /\ Len(TR.steps) = 2
          /\ TR.final_answers # <<>>

\* The example, with the answer reached over TCP.
C20_Witness ==
    /\ ReferThenAnswer
    /\ Len(lookups) = 2 * MaxNsLookups
    /\ sent[2].truncated
    /\ Len(TR.steps) = 2
    /\ TR.steps[2].note = <<"udp_truncated->tcp">>
    /\ TR.steps[2].answers = <<HostIP>>
    /\ TR.final_answers = <<HostIP>>

---------------------------------------------------------------------------
(* Claims about _score_report (checked under SpecScore). *)

\* C21: for every list of findings _score_report returns an integer in
\* 0..100, and it returns 100 for the empty list.
C21_ScoreRange ==
    IsSome(score) =>
        /\ Get(score) \in 0..BaseScore
        /\ findings = <<>> => Get(score) = BaseScore

\* Five findings that cost 25 each: the sum is below 0 and the score is 0.
C21_Witness ==
    /\ score = Some(0)
    /\ Len(findings) = 5
    /\ \A i \in 1..5 : Penalty(findings[i]) = PenaltyHigh
    /\ ScoreLoop(findings, BaseScore) < 0

---------------------------------------------------------------------------
(* Claims about parse_spf (checked under SpecSpf). *)

\* The blank-separated terms of a text.
RECURSIVE Words(_)
Words(s) ==
    IF s = <<>> THEN <<>>
    ELSE IF s[1] \in Whitespace THEN Words(Tail(s))
    ELSE LET n == CHOOSE k \in 1..Len(s) :
                      /\ \A j \in 1..k : s[j] \notin Whitespace
                      /\ k = Len(s) \/ s[k + 1] \in Whitespace
         IN  <<SubSeq(s, 1, n)>> \o Words(SubSeq(s, n + 1, Len(s)))

\* A term that is the all mechanism with a qualifier (SPF terms are
\* case-insensitive).
IsQualifiedAll(t) == Len(t) = 4 /\ t[1] \in Qualifiers /\ str_lower(Tail(t)) = KwAll

\* The all mechanisms of a record, in order.
AllMechanisms(s) == SelectSeq(Tail(Words(s)), IsQualifiedAll)

HasWarning(r, kw) == \E i \in 1..Len(r.warnings) : Contains(str_lower(r.warnings[i]), kw)

\* C22: for every record starting with v=spf1, parse_spf reports as policy
\* the qualifier of the record's all mechanism (the first one, should there
\* be several; no policy when the record has none); the warnings contain an
\* 'overly permissive' warning when that policy is +all and no permissive
\* warning when it is -all.
C22_PolicyOfAllMechanism ==
    (IsSome(spf_result) /\ startswith(str_lower(str_strip(spf)), VSpf1)) =>
        LET r == Get(spf_result)
            alls == AllMechanisms(spf)
        IN  /\ alls # <<>> => (IsSome(r.policy) /\ Get(r.policy) = str_lower(alls[1]))
            /\ IsSome(r.policy) => alls # <<>>
            /\ r.policy = Some(PlusAll) => HasWarning(r, KwPermissive)
            /\ r.policy = Some(<<"-">> \o KwAll) => ~HasWarning(r, SubSeq(KwPermissive, 8, 17))

---------------------------------------------------------------------------
(* Claims about DNSResolver.query across calls (checked under Spec). *)

\* C23: a call with TCP fallback allowed never returns an Answer that was
\* obtained over UDP and has its truncation flag set, whatever calls were
\* made on the resolver before (calls without TCP fallback included).
C23_NoTruncatedUdpAnswer ==
    (pc = "returned" /\ IsSome(call) /\ C.use_tcp_fallback) =>
        ~(~Get(result).meta.tcp /\ Get(result).meta.truncated)

\* C24: in every Answer a non-cached call returns, meta.retries is the number
\* of attempts of that call that failed before the attempt that produced the
\* answer, both when a UDP attempt answers and when the TCP fallback answers
\* after every UDP attempt failed.
C24_RetriesCountsFailures ==
    (pc = "returned" /\ IsSome(call) /\ C.served = None) =>
        LET last == Len(log)
            failed == Errors \cap 1..(last - 1)
        IN  (~log[last].tcp \/ UdpAttempts \subseteq Errors) =>
                Get(result).meta.retries = Cardinality(failed)

---------------------------------------------------------------------------
(* Claims about the restart of the trace at a CNAME (checked under         *)
(* SpecTrace and SpecChain).                                               *)

\* The i-th query of the main loop was answered, NOERROR, by a CNAME record
\* for a type other than CNAME: the answer the trace takes as an indirection.
CnameAnswered(i) ==
    /\ i \in 1..Len(sent)
    /\ IsSome(RespOf(i))
    /\ Get(RespOf(i)).rcode = "NOERROR"
    /\ HasCname(Get(RespOf(i)))
    /\ T.qtype # <<"CNAME">>

\* The target of the CNAME record that answered the i-th query, as written.
CnameTarget(i) == ItemsOf(Get(RespOf(i)).answer, {"CNAME"})[1]

\* The text ends with a dot.
DotTerminated(n) == n # <<>> /\ n[Len(n)] = "."

RootSet == {RootHints[i] : i \in 1..Len(RootHints)}

\* One iteration of the loop that is answered by a CNAME record, follows it
\* and goes on.
FollowsCname ==
    /\ \E udp \in UdpOutcomes :
           /\ IsSome(udp)
           /\ ~Get(udp).tc
           /\ Get(udp).rcode = "NOERROR"
           /\ HasCname(Get(udp))
           /\ TraceHop(udp, None)
    /\ tpc' = "loop"

\* C25 as stated: the root servers are shuffled anew when a CNAME is
\* followed, so that wherever the trace may follow a CNAME it may do so to a
\* root server other than the one queried at the first step.
C25_FreshRootOrder ==
    (tpc = "loop" /\ ENABLED FollowsCname) =>
        ENABLED (FollowsCname /\ Get(tr').servers[1] # sent'[1].server)

\* C25, amended: when the trace follows a CNAME the current name becomes the
\* dot-terminated target and the candidate servers become the full root-hint
\* set in the order shuffled at the start of the call; the next step queries
\* a root server for the new name, the one queried at the first step.
C25_CnameRestart ==
    tpc # "idle" =>
        /\ (tpc = "loop" /\ CnameAnswered(Len(sent))) =>
              /\ T.current = EnsureDot(CnameTarget(Len(sent)))
              /\ DotTerminated(T.current)
              /\ T.servers = T.roots
              /\ Len(T.servers) = Len(RootHints)
              /\ {T.servers[k] : k \in 1..Len(T.servers)} = RootSet
              /\ T.servers[1] = sent[1].server
        /\ \A i \in 1..(Len(sent) - 1) :
              CnameAnswered(i) =>
                  /\ sent[i + 1].qname = EnsureDot(CnameTarget(i))
                  /\ DotTerminated(sent[i + 1].qname)
                  /\ sent[i + 1].server \in RootSet
                  /\ sent[i + 1].server = sent[1].server

\* A referral took the trace away from the roots, then a CNAME whose target
\* is written without the final dot was followed, and the query for the
\* target went to the root server of the first step.
C25_Witness ==
    /\ Len(sent) = 3
    /\ sent[2].server \notin RootSet
    /\ CnameAnswered(2)
    /\ ~DotTerminated(CnameTarget(2))
    /\ sent[3].qname = EnsureDot(CnameTarget(2))
    /\ sent[3].server = sent[1].server
    /\ sent[1].server = RootHints[3]

---------------------------------------------------------------------------
(* Claims about names met again (checked under SpecChain). *)

\* The i-th query of the trace opens a walk from the root: it is the first
\* query, or the query that follows a CNAME answer.
OpensWalk(i) == i = 1 \/ CnameAnswered(i - 1)

\* The walks from the root that the trace has opened for name.
Walks(name) == {i \in 1..Len(sent) : OpensWalk(i) /\ sent[i].qname = name}

\* C26 as stated: no name is walked from the root twice, the originally
\* requested name included.
C26_NoNameWalkedTwice ==
    tpc # "idle" => \A i \in 1..Len(sent) : Cardinality(Walks(sent[i].qname)) <= 1

---------------------------------------------------------------------------
(* Claims about the servers the trace queries (checked under SpecTrace). *)

\* The first n distinct elements of the sequence names.
FirstHosts(names, n) ==
    {h \in {names[i] : i \in 1..Len(names)} :
        Cardinality({g \in {names[i] : i \in 1..Len(names)} :
                        FirstAt(names, g) < FirstAt(names, h)}) < n}

\* The records the lookups of the hostname ns return in this world.
LookedUp(ns) ==
    UNION {IF NsQuery(env, ns, rdtype) = None THEN {}
           ELSE {Get(NsQuery(env, ns, rdtype))[k] :
                    k \in 1..Len(Get(NsQuery(env, ns, rdtype)))} :
           rdtype \in {"A", "AAAA"}}

\* server is an address of the additional section of resp, or an address
\* looked up for one of the first MaxNsLookups hostnames of its authority
\* section.
FromReferral(server, resp) ==
    \/ \E k \in 1..Len(GlueAddresses(resp)) : GlueAddresses(resp)[k] = server
    \/ \E ns \in FirstHosts(ReferralNames(resp), MaxNsLookups) : server \in LookedUp(ns)

\* C27: the loop never finds its candidate servers empty, and every server
\* queried is a valid IP literal that is a root hint, a glue address of the
\* previous step's additional section or an address looked up for one of the
\* first MaxNsLookups hostnames of the previous step's authority section.
C27_ServersAreAddresses ==
    tpc # "idle" =>
        /\ T.stop # "no_servers"
        /\ tpc = "loop" => T.servers # <<>>
        /\ \A i \in 1..Len(sent) :
              /\ is_ip(sent[i].server)
              /\ \/ sent[i].server \in RootSet
                 \/ /\ i > 1
                    /\ IsSome(RespOf(i - 1))
                    /\ FromReferral(sent[i].server, Get(RespOf(i - 1)))

\* The first lookup of a referral returned a CNAME record before the
\* address, and the next query went to the address.
C27_Witness ==
    /\ Len(sent) = 2
    /\ env.ns = "alias"
    /\ lookups # <<>>
    /\ IsSome(lookups[1].out)
    /\ Len(Get(lookups[1].out)) = 2
    /\ ~is_ip(Get(lookups[1].out)[1])
    /\ sent[2].server = Get(lookups[1].out)[2]
    /\ sent[2].server \notin RootSet
    /\ is_ip(sent[2].server)

---------------------------------------------------------------------------
(* Claims about TTLCache.set (checked under SpecCache). *)

\* C28: a set with ttl > 0 leaves the key present, once, with the new value
\* and expiry, and leaves the entries of the other keys as they were and in
\* their order, except that the entry inserted earliest is removed whenever the
\* cache is at capacity (also when the key set is already present, and whether
\* or not entries have expired); no other key is removed.  When the entry
\* inserted earliest is that of the key set, it is the one removed and the key
\* comes back as the latest inserted.  A set with ttl <= 0 changes nothing.
C28_SetFrame ==
    [][op'.kind = "set" =>
          LET key == op'.key
              ls == Get(lastSet')
              full == Len(data) >= max_items
              IsOther(e) == e.key # key
              others == SelectSeq(data, IsOther)
          IN  IF ls.ttl <= 0 THEN data' = data
              ELSE /\ \E i \in 1..Len(data') :
                          /\ data'[i].key = key
                          /\ data'[i].value = ls.value
                          /\ data'[i].expires_at = now + ls.ttl
                   /\ Len(data') = Len(SelectSeq(data', IsOther)) + 1
                   /\ SelectSeq(data', IsOther) =
                          IF full /\ data[1].key # key THEN Tail(others) ELSE others
                   /\ (full /\ data[1].key = key) => data'[Len(data')].key = key
      ]_vars

\* After time has passed, a set of a key that the full cache of capacity 2
\* already held has removed the earliest key: a single entry is left.
C28_Witness ==
    /\ op.kind = "set" /\ op.full
    /\ max_items = 2
    /\ Len(data) = 1
    /\ data[1].key = op.key
    /\ data[1].stored_at = now
    /\ now > 0

=============================================================================
